---- MODULE Spec2Model ----
(***************************************************************************)
(* The H5 version 4 -> 5 migration step of tvb-root                        *)
(* (framework_tvb/tvb/core/entities/file/file_update_scripts/              *)
(* 005_update_files.py) together with the datatype registry                *)
(* (framework_tvb/tvb/config/init/datatypes_registry.py).                  *)
(*                                                                         *)
(* A Python string is a sequence of tokens (a token stands for a run of    *)
(* characters that the code never splits); a Python dict is a sequence of  *)
(* <<key, value>> pairs in insertion order.                                *)
(***************************************************************************)
EXTENDS Integers, Sequences, FiniteSets, TLC

(***************************************************************************)
(* Bounds of the model.                                                    *)
(***************************************************************************)
\* how many times update is called in one behaviour
MaxCalls == 2

(***************************************************************************)
(* Python values.                                                          *)
(***************************************************************************)
Str(toks) == [t |-> "str", v |-> toks]
IntV(n) == [t |-> "int", v |-> n]
FloatV(n) == [t |-> "float", v |-> n]
EmptyStr == Str(<<>>)

\* the numerals the legacy files of the model hold, with the number each denotes
Numeral == [n0 \in {"0", "1", "4", "5", "10", "42"} |->
              CASE n0 = "0" -> 0 [] n0 = "1" -> 1 [] n0 = "4" -> 4 [] n0 = "5" -> 5
                [] n0 = "10" -> 10 [] OTHER -> 42]

IsNumeric(x) == x.t = "str" /\ Len(x.v) = 1 /\ x.v[1] \in DOMAIN Numeral

\* str.replace(old, new) where old is one token and new a token sequence
RECURSIVE ReplaceToks(_, _, _)
ReplaceToks(toks, old, new) ==
    IF toks = <<>> THEN <<>>
    ELSE (IF Head(toks) = old THEN new ELSE <<Head(toks)>>)
         \o ReplaceToks(Tail(toks), old, new)

Replace(x, old, new) == Str(ReplaceToks(x.v, old, new))

Concat(x, y) == Str(x.v \o y.v)

\* str.upper() on one character: only the letters that matter are listed
UpperChar(c) == CASE c = "t" -> "T" [] c = "f" -> "F" [] OTHER -> c

\* the characters that stand alone as a token of the model
Chars == {"t", "f", "T", "F", "0", "1"}

\* s[:1].upper() + s[1:]
UpperFirst(x) ==
    IF x.v = <<>> THEN x
    ELSE IF Head(x.v) \in Chars
         THEN Str(<<UpperChar(Head(x.v))>> \o Tail(x.v))
         ELSE x

(***************************************************************************)
(* Python dicts.                                                           *)
(***************************************************************************)
Has(d, k) == \E i \in 1..Len(d) : d[i][1] = k
Get(d, k) == d[CHOOSE i \in 1..Len(d) : d[i][1] = k][2]
Put(d, k, x) ==
    IF Has(d, k)
    THEN [i \in 1..Len(d) |-> IF d[i][1] = k THEN <<k, x>> ELSE d[i]]
    ELSE Append(d, <<k, x>>)
Del(d, k) == SelectSeq(d, LAMBDA p : p[1] # k)
Keys(d) == {d[i][1] : i \in 1..Len(d)}
Values(d) == {d[i][2] : i \in 1..Len(d)}

\* dict(zip(keys, values)): a later pair replaces the value of an equal key
RECURSIVE DictZip(_, _, _)
DictZip(keys, vals, acc) ==
    IF keys = <<>> \/ vals = <<>> THEN acc
    ELSE DictZip(Tail(keys), Tail(vals), Put(acc, Head(keys), Head(vals)))

(***************************************************************************)
(* Module constants of 005_update_files.py.                                *)
(***************************************************************************)
GID_PREFIX == Str(<<"urn:uuid:">>)
FIELD_SURFACE_MAPPING == "has_surface_mapping"
FIELD_VOLUME_MAPPING == "has_volume_mapping"


(***************************************************************************)
(* Names the update script takes from modules outside the sources at hand. *)
(***************************************************************************)
\* DataTypeMetaData.KEY_CLASS_NAME, KEY_DATE, KEY_TITLE
KEY_CLASS_NAME == "type"
KEY_DATE == "create_date"
KEY_TITLE == "title"
\* tvb.core.services.import_service.OPERATION_XML
OPERATION_XML == "Operation.xml"
\* TvbProfile.current.version.DATA_VERSION: the script upgrades to version 5
DATA_VERSION == 5
\* the values TvbProfile.current.version.DATA_VERSION_ATTRIBUTE may have:
\* the attribute name of the schema version, in either casing
DataVersionAttributes == {"Data_version", "data_version"}

(***************************************************************************)
(* _lowercase_first_character: string[:1].lower() + string[1:], '' for an  *)
(* empty string.  The keys of the model that start with an upper-case      *)
(* letter are listed with what lower-casing the first character gives;     *)
(* every other key of the model starts with a lower-case letter.           *)
(***************************************************************************)
UpperKeys == {"Gid", "Module", "Create_date", "Data_version", "Subject", "Type"}

LowerOf(k) ==
    CASE k = "Gid" -> "gid"
      [] k = "Module" -> "module"
      [] k = "Create_date" -> "create_date"
      [] k = "Data_version" -> "data_version"
      [] k = "Subject" -> "subject"
      [] k = "Type" -> "type"
      [] OTHER -> k

_lowercase_first_character(string) == IF string = "" THEN "" ELSE LowerOf(string)

(***************************************************************************)
(* populate_datatypes_registry: the registered triples                     *)
(* <<scientific type, container adapter, index row type>>, in order.       *)
(***************************************************************************)
Reg(sci) == <<sci, sci \o "H5", sci \o "Index">>

populate_datatypes_registry ==
    << Reg("Connectivity"), Reg("LocalConnectivity"), Reg("ProjectionMatrix"),
       Reg("RegionVolumeMapping"), Reg("RegionMapping"), Reg("Sensors"),
       Reg("SimulationState"), Reg("CoherenceSpectrum"),
       Reg("ComplexCoherenceSpectrum"), Reg("FourierSpectrum"),
       Reg("WaveletCoefficients"), Reg("StructuralMRI"), Reg("Surface"),
       Reg("CrossCorrelation"), Reg("TimeSeries"), Reg("TimeSeriesRegion"),
       Reg("TimeSeriesSurface"), Reg("TimeSeriesVolume"), Reg("TimeSeriesEEG"),
       Reg("TimeSeriesMEG"), Reg("TimeSeriesSEEG"), Reg("Tracts"), Reg("Volume"),
       Reg("PrincipalComponents"), Reg("IndependentComponents"),
       Reg("ConnectivityMeasure"), Reg("CorrelationCoefficients"),
       Reg("Covariance"), Reg("Fcd"), Reg("StimuliRegion"), Reg("StimuliSurface"),
       <<"None", "DatatypeMeasureH5", "DatatypeMeasureIndex">>,
       Reg("ConnectivityAnnotations"),
       <<"None", "ValueWrapperH5", "ValueWrapperIndex">>,
       <<"Cortex", "CortexH5", "None">> >>

\* the registry object of tvb.core.neocom.h5, filled at start-up
VARIABLE REGISTRY

\* the registry keeps one dict per direction and register_datatype assigns into
\* each, so the last registration of a key is the one a lookup finds
LastWith(col, key) ==
    LET hits == {i \in 1..Len(REGISTRY) : REGISTRY[i][col] = key}
    IN  IF hits = {} THEN 0 ELSE CHOOSE i \in hits : \A j \in hits : j <= i

\* REGISTRY.get_h5file_for_datatype: the adapter of a scientific type; "KeyError"
\* when the type was never registered
get_h5file_for_datatype(datatype_class) ==
    IF LastWith(1, datatype_class) = 0 THEN "KeyError"
    ELSE REGISTRY[LastWith(1, datatype_class)][2]

\* REGISTRY.get_datatype_for_h5file: the scientific type of an adapter
get_datatype_for_h5file(h5_class) ==
    IF LastWith(2, h5_class) = 0 THEN "KeyError"
    ELSE REGISTRY[LastWith(2, h5_class)][1]

\* REGISTRY.get_index_for_datatype: the index row type of a scientific type
get_index_for_datatype(datatype_class) ==
    IF LastWith(1, datatype_class) = 0 THEN "KeyError"
    ELSE REGISTRY[LastWith(1, datatype_class)][3]

(***************************************************************************)
(* The legacy record kinds: the names the dispatch of update tests for,    *)
(* and one name ("Tracts") that no branch of the dispatch matches.         *)
(***************************************************************************)
SurfaceKinds == {"BrainSkull", "CorticalSurface", "SkinAir", "SkullSkin", "EEGCap",
                 "FaceSurface"}
SensorsKinds == {"SensorsEEG", "SensorsMEG", "SensorsInternal"}
ProjectionKinds == {"ProjectionSurfaceEEG", "ProjectionSurfaceMEG",
                    "ProjectionSurfaceSEEG"}
TimeSeriesKinds == {"TimeSeries", "TimeSeriesRegion", "TimeSeriesSurface",
                    "TimeSeriesVolume", "TimeSeriesEEG", "TimeSeriesMEG",
                    "TimeSeriesSEEG"}
Kinds ==
    {"Connectivity", "RegionMapping", "RegionVolumeMapping", "LocalConnectivity",
     "ConnectivityAnnotations", "Volume", "StructuralMRI", "ComplexCoherenceSpectrum",
     "WaveletCoefficients", "CoherenceSpectrum", "CrossCorrelation", "Fcd",
     "FourierSpectrum", "IndependentComponents", "CorrelationCoefficients",
     "PrincipalComponents", "Covariance", "ConnectivityMeasure", "DatatypeMeasure",
     "StimuliRegion", "StimuliSurface", "ValueWrapper", "SimulationState", "Tracts"}
    \cup SurfaceKinds \cup SensorsKinds \cup ProjectionKinds \cup TimeSeriesKinds

\* 'Sensors' in class_name, 'MEG' in class_name, ...: substring tests on the
\* kind names above
Contains(class_name, part) ==
    CASE part = "Sensors" -> class_name \in SensorsKinds
      [] part = "Projection" -> class_name \in ProjectionKinds
      [] part = "TimeSeries" -> class_name \in TimeSeriesKinds
      [] part = "Volume" ->
            class_name \in {"Volume", "RegionVolumeMapping", "TimeSeriesVolume"}
      [] part = "MEG" ->
            class_name \in {"SensorsMEG", "ProjectionSurfaceMEG", "TimeSeriesMEG"}
      [] part = "EEG" ->
            class_name \in {"SensorsEEG", "ProjectionSurfaceEEG", "ProjectionSurfaceSEEG",
                            "TimeSeriesEEG", "TimeSeriesSEEG", "EEGCap"}
      [] OTHER -> FALSE

(***************************************************************************)
(* The legacy (version 4) containers of the model.                         *)
(***************************************************************************)
\* the identifiers: H1 is the container's own gid, H2 and H3 are the gids its
\* dependent fields refer to; each stands for 32 hexadecimal characters
H1 == "a1b2"
H2 == "c3d4"
H3 == "e5f6"
Hex == {H1, H2, H3}

Quote == "\""
Quoted(tok) == Str(<<Quote, tok, Quote>>)

\* the legacy tokens of a boolean field
BoolTokens ==
    {<<"0">>, <<"1">>, <<"t", "rue">>, <<"f", "alse">>, <<"T", "rue">>, <<"F", "alse">>}

Lengths == <<"length_1d", "length_2d", "length_3d", "length_4d">>
Common == <<"label_x", "label_y", "aggregation_functions", "dimensions_labels",
            "nr_dimensions">>

\* the legacy equation descriptor of a stimulus or a local connectivity
LegacyEquation ==
    [t |-> "json",
     v |-> << <<"__mapped_class", Str(<<"Gaussian">>)>>,
              <<"__mapped_module", Str(<<"tvb.datatypes.equations">>)>>,
              <<"parameters", [t |-> "json", v |-> << <<"sigma", IntV(1)>> >>]>> >>]

\* the legacy value of a root-metadata key; bool is the token of boolean fields
LegacyValue(key, bool) ==
    CASE key \in {"connectivity", "sensors", "source", "analyzed_datatype"} -> Str(<<H2>>)
      [] key \in {"surface", "volume", "region_mapping", "sources"} -> Str(<<H3>>)
      [] key \in {"undirected", "zero_based_triangles", "bi_hemispheric",
                  "valid_for_simulations", "has_orientation"} -> Str(bool)
      [] key \in {"surface_type", "sensors_type", "projection_type", "voxel_unit",
                  "windowing_function", "mother", "normalisation", "data_type",
                  "sample_period_unit", "title"} -> Quoted(key)
      \* the containers written with undirected = 1 have a selection saved
      [] key = "saved_selection" ->
            IF bool = <<"1">> THEN Str(<<"[1, 5]">>) ELSE Str(<<"null">>)
      [] key \in {"equation", "spatial", "temporal"} -> LegacyEquation
      [] key \in {"weight", "focal_points_triangles", "focal_points_surface"} ->
            [t |-> "json", v |-> <<IntV(1), IntV(5)>>]
      [] key \in {"number_of_regions", "nr_dimensions", "nfft", "n_components",
                  "number_of_sensors", "number_of_split_slices", "number_of_triangles",
                  "number_of_vertices"} -> Str(<<"5">>)
      [] key = "number_of_connections" -> Str(<<"10">>)
      [] OTHER -> Str(<<"1">>)

\* the keys a legacy container of a kind holds besides the generic ones
KindKeys(kind) ==
    CASE kind = "Connectivity" ->
            <<"number_of_connections", "number_of_regions", "undirected",
              "saved_selection">>
      [] kind \in SurfaceKinds ->
            <<"edge_max_length", "edge_mean_length", "edge_min_length",
              "number_of_split_slices", "number_of_triangles", "number_of_vertices",
              "zero_based_triangles", "bi_hemispheric", "valid_for_simulations",
              "surface_type">>
      [] kind = "RegionMapping" -> Common \o <<"surface", "connectivity">> \o Lengths
      [] kind = "RegionVolumeMapping" -> Common \o <<"connectivity", "volume">> \o Lengths
      [] kind \in SensorsKinds -> <<"number_of_sensors", "sensors_type", "has_orientation">>
      [] kind \in ProjectionKinds -> <<"sensors", "sources", "projection_type">>
      [] kind = "LocalConnectivity" -> <<"cutoff", "surface", "equation">>
      [] kind = "ConnectivityAnnotations" -> <<"connectivity">>
      [] kind \in TimeSeriesKinds ->
            <<FIELD_SURFACE_MAPPING, FIELD_VOLUME_MAPPING, "nr_dimensions", "sample_rate",
              "sample_period", "start_time", "sample_period_unit", KEY_TITLE>>
            \o (CASE kind = "TimeSeriesRegion" -> <<"region_mapping", "connectivity">>
                  [] kind = "TimeSeriesSurface" -> <<"surface">>
                  [] kind \in {"TimeSeriesEEG", "TimeSeriesMEG", "TimeSeriesSEEG"} ->
                        <<"sensors">>
                  [] OTHER -> <<"volume">>)
            \o Lengths
      [] kind = "Volume" -> <<"voxel_unit">>
      [] kind = "StructuralMRI" -> Common \o <<"volume">> \o Lengths
      [] kind = "ComplexCoherenceSpectrum" ->
            Common \o <<KEY_TITLE, "epoch_length", "segment_length", "source",
                        "windowing_function">> \o Lengths
      [] kind = "WaveletCoefficients" ->
            Common \o <<KEY_TITLE, "q_ratio", "sample_period", "source", "mother",
                        "normalisation">> \o Lengths
      [] kind = "CoherenceSpectrum" -> Common \o <<KEY_TITLE, "nfft", "source">> \o Lengths
      [] kind = "CrossCorrelation" -> <<"source">>
      [] kind = "Fcd" -> Common \o <<KEY_TITLE, "sp", "sw", "source">> \o Lengths
      [] kind = "FourierSpectrum" ->
            Common \o <<KEY_TITLE, "segment_length", "source">> \o Lengths
      [] kind = "IndependentComponents" -> <<"n_components", "source">>
      [] kind = "CorrelationCoefficients" -> Common \o <<KEY_TITLE, "source">> \o Lengths
      [] kind = "PrincipalComponents" -> <<"source">>
      [] kind = "Covariance" -> Common \o <<KEY_TITLE, "source">> \o Lengths
      [] kind = "ConnectivityMeasure" -> Common \o <<"connectivity">> \o Lengths
      [] kind = "DatatypeMeasure" -> <<"analyzed_datatype">>
      [] kind = "StimuliRegion" -> <<"connectivity", "weight", "spatial", "temporal">>
      [] kind = "StimuliSurface" ->
            <<"surface", "focal_points_triangles", "focal_points_surface", "spatial",
              "temporal">>
      [] kind = "ValueWrapper" -> <<"data_type">>
      [] OTHER -> <<>>

\* the legacy creation date, 'datetime:<date> <hour>:<minute>'
LegacyDate == Str(<<"datetime:", "2020-01-31", " ", "10", ":", "30">>)

\* the generic part of a legacy container: class name, module, identifier,
\* creation date, schema version and a field ("subject") update never touches
GenericPairs(kind) ==
    << <<"type", Str(<<kind>>)>>, <<"module", Str(<<"module.of", kind>>)>>,
       <<"gid", Str(<<H1>>)>>, <<KEY_DATE, LegacyDate>>,
       <<"data_version", Str(<<"4">>)>>, <<"subject", Str(<<"John">>)>> >>

PlainRoot(kind, bool) ==
    GenericPairs(kind)
    \o [i \in 1..Len(KindKeys(kind)) |->
           <<KindKeys(kind)[i], LegacyValue(KindKeys(kind)[i], bool)>>]

\* the same key with its first character in upper case, for the generic keys
\* legacy files wrote capitalised; the class-name key is left as the script
\* looks it up
UpperOf(k) ==
    CASE k = "gid" -> "Gid"
      [] k = "module" -> "Module"
      [] k = "create_date" -> "Create_date"
      [] k = "data_version" -> "Data_version"
      [] k = "subject" -> "Subject"
      [] OTHER -> k

Variants == {"plain", "capital", "collide", "nokey", "notype", "untagged"}

\* an equation descriptor without its class tag
UntaggedEquation == [LegacyEquation EXCEPT !.v = Tail(@)]

\* the root metadata of a legacy container, as storage_manager.get_metadata()
\* returns it
LegacyRoot(kind, variant, bool) ==
    LET plain == PlainRoot(kind, bool)
    IN  CASE variant = "capital" ->
                [i \in 1..Len(plain) |-> <<UpperOf(plain[i][1]), plain[i][2]>>]
          [] variant = "collide" ->
                \* two keys that differ only in the case of their first character
                Append(plain, <<"Subject", Str(<<"Jane">>)>>)
          [] variant = "nokey" ->
                \* a container that lacks the last of its keys
                SubSeq(plain, 1, Len(plain) - 1)
          [] variant = "notype" -> Tail(plain)
          [] variant = "untagged" ->
                \* a stimulus whose temporal equation has no '__mapped_class'
                [i \in 1..Len(plain) |->
                    IF plain[i][1] = "temporal"
                    THEN <<"temporal", UntaggedEquation>> ELSE plain[i]]
          [] OTHER -> plain

\* the datasets of a legacy container of a kind
KindDatasets(kind) ==
    CASE kind = "Connectivity" -> {"centres", "region_labels", "tract_lengths", "weights"}
      [] kind \in SurfaceKinds -> {"triangle_normals", "triangles", "vertex_normals", "vertices"}
      [] kind \in {"RegionMapping", "RegionVolumeMapping", "StructuralMRI", "Fcd",
                   "CorrelationCoefficients", "Covariance", "ConnectivityMeasure"} ->
            {"array_data"}
      [] kind = "SensorsMEG" -> {"labels", "locations", "orientations"}
      [] kind \in SensorsKinds -> {"labels", "locations"}
      [] kind \in ProjectionKinds -> {"projection_data"}
      [] kind = "LocalConnectivity" -> {"matrix"}
      [] kind = "ConnectivityAnnotations" -> {"region_annotations"}
      [] kind \in TimeSeriesKinds -> {"data", "time"}
      [] kind = "Volume" -> {"origin", "voxel_size"}
      [] kind = "ComplexCoherenceSpectrum" -> {"array_data", "cross_spectrum"}
      [] kind = "WaveletCoefficients" ->
            {"amplitude", "array_data", "frequencies", "phase", "power"}
      [] kind = "CoherenceSpectrum" -> {"array_data", "frequency"}
      [] kind = "CrossCorrelation" -> {"array_data", "time"}
      [] kind = "FourierSpectrum" ->
            {"amplitude", "array_data", "average_power", "normalised_average_power",
             "phase", "power"}
      [] kind = "IndependentComponents" ->
            {"component_time_series", "mixing_matrix", "norm_source",
             "normalised_component_time_series", "prewhitening_matrix", "unmixing_matrix"}
      [] kind = "PrincipalComponents" ->
            {"component_time_series", "fractions", "norm_source",
             "normalised_component_time_series", "weights"}
      [] OTHER -> {}

\* the attribute block of a legacy dataset: statistics of the content the
\* dataset had when it was written ("stale": not known to match the content)
LegacyAttrs ==
    [names |-> {"Minimum", "Maximum", "Mean", "Variance", "Size", "Mean non zero",
                "Min. non zero", "Var. non zero", "Shape", "dtype", "format"},
     stats |-> "stale", content |-> "bytes"]

LegacyDatasets(kind) == [d \in KindDatasets(kind) |-> LegacyAttrs]

(***************************************************************************)
(* The statements of update and of its helpers.  A frame holds the local   *)
(* variables of one call: err is the exception that ended it ("" while it  *)
(* runs), ret says that update has returned early, rm is root_metadata,    *)
(* xml is operation_xml_parameters, deps is dependent_attributes, ds are   *)
(* the datasets of the container as the storage manager holds them.  A     *)
(* statement on a frame that has raised or returned does nothing.          *)
(***************************************************************************)
Raise(fr, e) == [fr EXCEPT !.err = e]

NoneV == [t |-> "none", v |-> 0]
BoolV(b) == [t |-> "bool", v |-> b]

\* the attributes DataSetMetaData.from_array(...).to_dict() computes
StatNames == {"Minimum", "Maximum", "Mean"}

\* a rebuild of one dataset's attributes that forgets to drop Size
MigrateOneDatasetKeepingSize(fr, dataset) ==
    IF dataset \notin DOMAIN fr.ds THEN Raise(fr, "MissingDataSetException")
    ELSE [fr EXCEPT !.ds[dataset] =
            [@ EXCEPT !.names = (@ \cup StatNames) \ {"Variance"}, !.stats = "fresh"]]

\* _migrate_dataset_metadata for one dataset
MigrateOneDataset(fr, dataset) ==
    IF dataset \notin DOMAIN fr.ds THEN Raise(fr, "MissingDataSetException")
    ELSE [fr EXCEPT !.ds[dataset] =
            [@ EXCEPT !.names = (@ \cup StatNames) \ {"Variance", "Size"},
                      !.stats = "fresh"]]

RECURSIVE _migrate_dataset_metadata(_, _)
_migrate_dataset_metadata(fr, dataset_list) ==
    IF dataset_list = <<>> \/ fr.err # "" THEN fr
    ELSE _migrate_dataset_metadata(MigrateOneDataset(fr, Head(dataset_list)),
                                   Tail(dataset_list))

\* storage_manager.store_data(ds_name, ...): the dataset exists afterwards, with
\* no statistics yet
StoreData(fr, ds_name, content) ==
    [fr EXCEPT !.ds = [d \in DOMAIN fr.ds \cup {ds_name} |->
        IF d = ds_name THEN [names |-> {}, stats |-> "none", content |-> content]
        ELSE fr.ds[d]]]

\* _bytes_ds_to_string_ds
_bytes_ds_to_string_ds(fr, ds_name) ==
    IF ds_name \notin DOMAIN fr.ds THEN Raise(fr, "MissingDataSetException")
    ELSE StoreData(fr, ds_name, "text")

\* _migrate_one_stimuli_param
\* a splitter that adds the type to the legacy descriptor and keeps the rest
MigrateStimuliParamKeepingTag(fr, param_name) ==
    IF ~Has(fr.rm, param_name) THEN Raise(fr, "KeyError")
    ELSE LET param == Get(fr.rm, param_name)
         IN  IF param.t # "json" THEN Raise(fr, "JSONDecodeError")
             ELSE IF ~Has(param.v, "__mapped_class") \/ ~Has(param.v, "parameters")
             THEN Raise(fr, "KeyError")
             ELSE [fr EXCEPT !.rm = Put(fr.rm, param_name,
                     [t |-> "json",
                      v |-> Put(param.v, "type", Get(param.v, "__mapped_class"))])]

_migrate_one_stimuli_param(fr, param_name) ==
    IF ~Has(fr.rm, param_name) THEN Raise(fr, "KeyError")
    ELSE LET param == Get(fr.rm, param_name)
         IN  IF param.t # "json" THEN Raise(fr, "JSONDecodeError")
             ELSE IF ~Has(param.v, "__mapped_class") \/ ~Has(param.v, "parameters")
             THEN Raise(fr, "KeyError")
             ELSE [fr EXCEPT !.rm = Put(fr.rm, param_name,
                     [t |-> "json",
                      v |-> << <<"type", Get(param.v, "__mapped_class")>>,
                               <<"parameters", Get(param.v, "parameters")>> >>])]

\* an optional dataset whose absence ends the call
TryOptionalFatal(fr, mt) ==
    IF mt \in DOMAIN fr.ds THEN [fr EXCEPT !.list = Append(fr.list, mt)]
    ELSE Raise(fr, "MissingDataSetException")

\* lines 320-325: try: storage_manager.get_metadata(mt); metadata.append(mt)
\* except MissingDataSetException: pass
TryOptional(fr, mt) ==
    IF mt \in DOMAIN fr.ds THEN [fr EXCEPT !.list = Append(fr.list, mt)] ELSE fr

\* one statement of update
Exec(fr, ins) ==
    LET op == ins[1]
        k == ins[2]
    IN
    IF fr.err # "" \/ fr.ret # "" THEN fr
    ELSE IF op \in {"int", "float", "unquote", "prefix", "pop", "dep", "boolcap",
                    "undirected", "saved_selection", "xml_from", "xml_zbt"}
            /\ ~Has(fr.rm, k)
    THEN Raise(fr, "KeyError")
    ELSE CASE op = "int" ->
            IF IsNumeric(Get(fr.rm, k))
            THEN [fr EXCEPT !.rm = Put(fr.rm, k, IntV(Numeral[Get(fr.rm, k).v[1]]))]
            ELSE Raise(fr, "ValueError")
      [] op = "float" ->
            IF IsNumeric(Get(fr.rm, k))
            THEN [fr EXCEPT !.rm = Put(fr.rm, k, FloatV(Numeral[Get(fr.rm, k).v[1]]))]
            ELSE Raise(fr, "ValueError")
      [] op = "unquote" ->
            [fr EXCEPT !.rm = Put(fr.rm, k, Replace(Get(fr.rm, k), Quote, <<>>))]
      [] op = "prefix" ->
            [fr EXCEPT !.rm = Put(fr.rm, k, Concat(GID_PREFIX, Get(fr.rm, k)))]
      [] op = "pop" -> [fr EXCEPT !.rm = Del(fr.rm, k)]
      [] op = "dep" -> [fr EXCEPT !.deps = Put(fr.deps, k, Get(fr.rm, k))]
      [] op = "boolcap" ->
            \* "bool:" + value[:1].upper() + value[1:]
            [fr EXCEPT !.rm = Put(fr.rm, k,
                                  Concat(Str(<<"bool:">>), UpperFirst(Get(fr.rm, k))))]
      [] op = "undirected" ->
            [fr EXCEPT !.rm = Put(fr.rm, k,
                IF Get(fr.rm, k) = Str(<<"0">>) THEN Str(<<"bool:", "F", "alse">>)
                ELSE Str(<<"bool:", "T", "rue">>))]
      [] op = "saved_selection" ->
            IF Get(fr.rm, k) = Str(<<"null">>)
            THEN [fr EXCEPT !.rm = Put(fr.rm, k, Str(<<"[]">>))]
            ELSE fr
      [] op = "put" -> [fr EXCEPT !.rm = Put(fr.rm, k, ins[3])]
      [] op = "xml_put" -> [fr EXCEPT !.xml = Put(fr.xml, k, ins[3])]
      [] op = "xml_from" -> [fr EXCEPT !.xml = Put(fr.xml, ins[3], Get(fr.rm, k))]
      [] op = "xml_zbt" ->
            [fr EXCEPT !.xml = Put(fr.xml, k,
                BoolV(Get(fr.rm, k) = Str(<<"bool:", "T", "rue">>)))]
      [] op = "xml_pop_default" -> [fr EXCEPT !.xml = Del(fr.xml, k)]
      [] op = "xml_empty_to_none" ->
            \* if k in params and params[k] == '': params[k] = None
            IF Has(fr.xml, k) /\ Get(fr.xml, k) = EmptyStr
            THEN [fr EXCEPT !.xml = Put(fr.xml, k, NoneV)]
            ELSE fr
      [] op = "xml_empty_to_none_strict" ->
            \* if params[k] == '': params[k] = None
            IF ~Has(fr.xml, k) THEN Raise(fr, "KeyError")
            ELSE IF Get(fr.xml, k) = EmptyStr
                 THEN [fr EXCEPT !.xml = Put(fr.xml, k, NoneV)]
                 ELSE fr
      [] op = "xml_del_if_none" ->
            \* if params[k] == 'none': del params[k]
            IF ~Has(fr.xml, k) THEN Raise(fr, "KeyError")
            ELSE IF Get(fr.xml, k) = Str(<<"none">>)
                 THEN [fr EXCEPT !.xml = Del(fr.xml, k)]
                 ELSE fr
      [] op = "stats" -> _migrate_dataset_metadata(fr, k)
      [] op = "optional" -> TryOptional(fr, k)
      [] op = "list" -> [fr EXCEPT !.list = k]
      [] op = "stats_list" -> _migrate_dataset_metadata(fr, fr.list)
      [] op = "rm_meta" ->
            \* storage_manager.remove_metadata(k, dataset)
            IF ins[3] \notin DOMAIN fr.ds THEN Raise(fr, "MissingDataSetException")
            ELSE [fr EXCEPT !.ds[ins[3]].names = @ \ {k}]
      [] op = "decode_meta" ->
            \* get_metadata(k), three str(value, 'utf-8'), set_metadata(..., k)
            IF k \notin DOMAIN fr.ds THEN Raise(fr, "MissingDataSetException")
            ELSE IF ~({"Shape", "dtype", "format"} \subseteq fr.ds[k].names)
                 THEN Raise(fr, "KeyError")
                 ELSE fr
      [] op = "store_data" -> StoreData(fr, k, ins[3])
      [] op = "bytes_to_string" -> _bytes_ds_to_string_ds(fr, k)
      [] op = "recast" ->
            \* get_data, remove_data, store_data(numpy.asarray(..., float64))
            IF k \notin DOMAIN fr.ds THEN Raise(fr, "MissingDataSetException")
            ELSE StoreData(fr, k, "float64")
      [] op = "h5_class" -> [fr EXCEPT !.h5_class = k]
      [] op = "algorithm" ->
            [fr EXCEPT !.algorithm = Replace(fr.algorithm, k, <<ins[3]>>)]
      [] op = "equation" ->
            \* eval, equation['type'] = equation['__mapped_class'], two del, dumps
            IF ~Has(fr.rm, k) THEN Raise(fr, "KeyError")
            ELSE LET equation == Get(fr.rm, k)
                 IN  IF equation.t # "json" THEN Raise(fr, "SyntaxError")
                     ELSE IF ~Has(equation.v, "__mapped_class")
                             \/ ~Has(equation.v, "__mapped_module")
                     THEN Raise(fr, "KeyError")
                     ELSE [fr EXCEPT !.rm = Put(fr.rm, k,
                            [t |-> "json",
                             v |-> Del(Del(Put(equation.v, "type",
                                               Get(equation.v, "__mapped_class")),
                                           "__mapped_class"), "__mapped_module")])]
      [] op = "stimuli_param" -> _migrate_one_stimuli_param(fr, k)
      [] op = "additional" ->
            \* additional_params[k] = numpy.asarray(eval(root_metadata[k]), ...)
            IF ~Has(fr.rm, k) THEN Raise(fr, "KeyError")
            ELSE [fr EXCEPT !.additional = Put(fr.additional, k, Get(fr.rm, k))]
      [] op = "stimuli_dataset" ->
            \* weights = eval(root_metadata[d]); store_data(d, weights);
            \* _migrate_dataset_metadata([d]); root_metadata.pop(d)
            IF ~Has(fr.rm, k) THEN Raise(fr, "KeyError")
            ELSE LET stored == MigrateOneDataset(StoreData(fr, k, "array"), k)
                 IN  [stored EXCEPT !.rm = Del(stored.rm, k)]
      [] op = "remove_file" -> [fr EXCEPT !.removed = TRUE]
      [] op = "return" -> [fr EXCEPT !.ret = "return"]
      [] OTHER -> Raise(fr, "NotImplemented")

RECURSIVE Run(_, _)
Run(fr, program) ==
    IF program = <<>> THEN fr ELSE Run(Exec(fr, Head(program)), Tail(program))

\* a statement applied to each key of a list, in order
Each(op, keys) == [i \in 1..Len(keys) |-> <<op, keys[i]>>]

_pop_lengths == Each("pop", Lengths)

_pop_common_metadata == Each("pop", Common)

\* _migrate_time_series
_migrate_time_series(class_name) ==
    <<  <<"pop", FIELD_SURFACE_MAPPING>>, <<"pop", FIELD_VOLUME_MAPPING>> >>
    \o _pop_lengths
    \o (IF class_name # "TimeSeriesVolume"
        THEN << <<"list", <<"data", "time">> >>,
                <<"int", "nr_dimensions">>, <<"float", "sample_rate">> >>
        ELSE << <<"list", <<"data">> >> >>)
    \o << <<"float", "sample_period">>, <<"float", "start_time">>,
          <<"unquote", "sample_period_unit">>, <<"unquote", KEY_TITLE>>,
          <<"stats_list">> >>
    \o (IF class_name = "TimeSeriesRegion"
        THEN << <<"prefix", "region_mapping">>, <<"prefix", "connectivity">>,
                <<"dep", "connectivity">>, <<"dep", "region_mapping">> >>
        ELSE IF class_name = "TimeSeriesSurface"
        THEN << <<"prefix", "surface">>, <<"dep", "surface">> >>
        ELSE IF class_name \in {"TimeSeriesEEG", "TimeSeriesMEG", "TimeSeriesSEEG"}
        THEN << <<"prefix", "sensors">>, <<"dep", "sensors">> >>
        ELSE << <<"prefix", "volume">>, <<"dep", "volume">>,
                <<"pop", "nr_dimensions">>, <<"pop", "sample_rate">> >>)

\* _migrate_stimuli
_migrate_stimuli(datasets) ==
    << <<"stimuli_param", "spatial">>, <<"stimuli_param", "temporal">> >>
    \o Each("stimuli_dataset", datasets)

\* the if/elif chain of update over class_name: the first test that holds
\* names the branch that runs
Branch(class_name) ==
    IF class_name = "Connectivity" THEN "Connectivity"
    ELSE IF class_name \in {"BrainSkull", "CorticalSurface", "SkinAir", "BrainSkull",
                            "SkullSkin", "EEGCap", "FaceSurface"} THEN "Surface"
    ELSE IF class_name = "RegionMapping" THEN "RegionMapping"
    ELSE IF class_name = "RegionVolumeMapping" THEN "RegionVolumeMapping"
    ELSE IF Contains(class_name, "Sensors") THEN "Sensors"
    ELSE IF Contains(class_name, "Projection") THEN "Projection"
    ELSE IF class_name = "LocalConnectivity" THEN "LocalConnectivity"
    ELSE IF class_name = "ConnectivityAnnotations" THEN "ConnectivityAnnotations"
    ELSE IF Contains(class_name, "TimeSeries") THEN "TimeSeries"
    ELSE IF Contains(class_name, "Volume") THEN "Volume"
    ELSE IF class_name \in {"StructuralMRI", "ComplexCoherenceSpectrum",
                            "WaveletCoefficients", "CoherenceSpectrum", "CrossCorrelation",
                            "Fcd", "FourierSpectrum", "IndependentComponents",
                            "CorrelationCoefficients", "PrincipalComponents",
                            "Covariance", "ConnectivityMeasure", "DatatypeMeasure",
                            "StimuliRegion", "StimuliSurface", "ValueWrapper",
                            "SimulationState"} THEN class_name
    ELSE "none"

\* the statements of a branch, in source order
Program(branch, class_name, input_file) ==
    CASE branch = "Connectivity" ->
            << <<"int", "number_of_connections">>, <<"int", "number_of_regions">>,
               <<"undirected", "undirected">>, <<"saved_selection", "saved_selection">>,
               <<"list", <<"centres", "region_labels", "tract_lengths", "weights">> >> >>
            \o Each("optional", <<"orientations", "areas", "cortical", "hemispheres",
                                  "orientations">>)
            \o << <<"xml_del_if_none", "normalization">>,
                  <<"rm_meta", "Mean non zero", "tract_lengths">>,
                  <<"rm_meta", "Min. non zero", "tract_lengths">>,
                  <<"rm_meta", "Var. non zero", "tract_lengths">>,
                  <<"rm_meta", "Mean non zero", "weights">>,
                  <<"rm_meta", "Min. non zero", "weights">>,
                  <<"rm_meta", "Var. non zero", "weights">>,
                  <<"stats_list">> >>
      [] branch = "Surface" ->
            << <<"float", "edge_max_length">>, <<"float", "edge_mean_length">>,
               <<"float", "edge_min_length">>, <<"int", "number_of_split_slices">>,
               <<"int", "number_of_triangles">>, <<"int", "number_of_vertices">>,
               <<"boolcap", "zero_based_triangles">>, <<"boolcap", "bi_hemispheric">>,
               <<"boolcap", "valid_for_simulations">>, <<"unquote", "surface_type">>,
               <<"xml_zbt", "zero_based_triangles">>,
               <<"store_data", "split_triangles", "array">>,
               <<"stats", <<"split_triangles", "triangle_normals", "triangles",
                            "vertex_normals", "vertices">> >> >>
      [] branch = "RegionMapping" ->
            _pop_lengths \o _pop_common_metadata
            \o << <<"prefix", "surface">>, <<"prefix", "connectivity">>,
                  <<"stats", <<"array_data">> >>,
                  <<"dep", "connectivity">>, <<"dep", "surface">>,
                  <<"algorithm", "RegionMapping_Importer", "RegionMappingImporter">> >>
      [] branch = "RegionVolumeMapping" ->
            _pop_lengths \o _pop_common_metadata
            \o << <<"prefix", "connectivity">>, <<"prefix", "volume">>,
                  <<"stats", <<"array_data">> >>,
                  <<"dep", "connectivity">>, <<"dep", "volume">> >>
      [] branch = "Sensors" ->
            << <<"int", "number_of_sensors">>, <<"unquote", "sensors_type">>,
               <<"boolcap", "has_orientation">>,
               <<"rm_meta", "Size", "labels">>, <<"rm_meta", "Size", "locations">>,
               <<"rm_meta", "Variance", "locations">>,
               <<"bytes_to_string", "labels">> >>
            \o (IF Contains(class_name, "MEG")
                THEN << <<"rm_meta", "Size", "orientations">>,
                        <<"rm_meta", "Variance", "orientations">>,
                        <<"xml_put", "sensors_type", Str(<<"MEG">>)>>,
                        <<"stats", <<"labels", "locations", "orientations">> >> >>
                ELSE IF Contains(class_name, "EEG")
                THEN << <<"xml_put", "sensors_type", Str(<<"EEG">>)>>,
                        <<"stats", <<"labels", "locations">> >> >>
                ELSE << <<"xml_put", "sensors_type", Str(<<"Internal">>)>>,
                        <<"stats", <<"labels", "locations">> >> >>)
            \o << <<"algorithm", "Sensors_Importer", "SensorsImporter">> >>
      [] branch = "Projection" ->
            << <<"prefix", "sensors">>, <<"prefix", "sources">>,
               <<"put", "written_by",
                 Str(<<"tvb.adapters.datatypes.h5.projections_h5.", "ProjectionMatrixH5">>)>>,
               <<"unquote", "projection_type">>,
               <<"rm_meta", "Size", "projection_data">>,
               <<"rm_meta", "Variance", "projection_data">>,
               <<"xml_put", "projection_file", Str(input_file)>>,
               <<"stats", <<"projection_data">> >>,
               <<"dep", "sensors">>, <<"dep", "sources">>,
               <<"algorithm", "BrainstormGainMatrixImporter",
                 "ProjectionMatrixSurfaceEEGImporter">> >>
      [] branch = "LocalConnectivity" ->
            << <<"float", "cutoff">>, <<"prefix", "surface">>,
               <<"decode_meta", "matrix">>, <<"equation", "equation">>,
               <<"xml_from", "surface", "surface">>, <<"dep", "surface">> >>
      [] branch = "ConnectivityAnnotations" ->
            << <<"prefix", "connectivity">>,
               <<"put", "written_by",
                 Str(<<"tvb.adapters.datatypes.h5.annotation_h5.",
                       "ConnectivityAnnotationsH5">>)>>,
               <<"h5_class", "ConnectivityAnnotationsH5">>,
               <<"stats", <<"region_annotations">> >>,
               <<"dep", "connectivity">> >>
      [] branch = "TimeSeries" ->
            << <<"xml_pop_default", "">>, <<"xml_empty_to_none", "surface">>,
               <<"xml_empty_to_none", "stimulus">> >>
            \o _migrate_time_series(class_name)
      [] branch = "Volume" ->
            << <<"unquote", "voxel_unit">>,
               <<"xml_empty_to_none_strict", "connectivity">>,
               <<"stats", <<"origin", "voxel_size">> >> >>
      [] branch = "StructuralMRI" ->
            _pop_lengths \o _pop_common_metadata
            \o << <<"prefix", "volume">>, <<"stats", <<"array_data">> >>,
                  <<"dep", "volume">> >>
      [] branch = "ComplexCoherenceSpectrum" ->
            _pop_lengths \o _pop_common_metadata
            \o << <<"pop", KEY_TITLE>>, <<"float", "epoch_length">>,
                  <<"float", "segment_length">>, <<"prefix", "source">>,
                  <<"unquote", "windowing_function">>, <<"prefix", "source">>,
                  <<"stats", <<"array_data", "cross_spectrum">> >>,
                  <<"dep", "source">> >>
      [] branch = "WaveletCoefficients" ->
            _pop_lengths \o _pop_common_metadata
            \o << <<"pop", KEY_TITLE>>, <<"float", "q_ratio">>,
                  <<"float", "sample_period">>, <<"prefix", "source">>,
                  <<"unquote", "mother">>, <<"unquote", "normalisation">>,
                  <<"xml_from", "source", "input_data">>,
                  <<"stats", <<"amplitude", "array_data", "frequencies", "phase",
                               "power">> >>,
                  <<"dep", "source">> >>
      [] branch = "CoherenceSpectrum" ->
            _pop_lengths \o _pop_common_metadata
            \o << <<"pop", KEY_TITLE>>, <<"int", "nfft">>, <<"prefix", "source">>,
                  <<"recast", "array_data">>,
                  <<"stats", <<"array_data", "frequency">> >>,
                  <<"dep", "source">> >>
      [] branch = "CrossCorrelation" ->
            << <<"xml_from", "source", "datatype">>, <<"prefix", "source">>,
               <<"dep", "source">>, <<"stats", <<"array_data", "time">> >> >>
      [] branch = "Fcd" ->
            _pop_lengths \o _pop_common_metadata
            \o << <<"pop", KEY_TITLE>>, <<"float", "sp">>, <<"float", "sw">>,
                  <<"prefix", "source">>, <<"stats", <<"array_data">> >>,
                  <<"dep", "source">> >>
      [] branch = "FourierSpectrum" ->
            _pop_lengths \o _pop_common_metadata
            \o << <<"pop", KEY_TITLE>>, <<"float", "segment_length">>,
                  <<"prefix", "source">>, <<"xml_from", "source", "input_data">>,
                  <<"stats", <<"amplitude", "array_data", "average_power",
                               "normalised_average_power", "phase", "power">> >>,
                  <<"dep", "source">> >>
      [] branch = "IndependentComponents" ->
            << <<"int", "n_components">>, <<"prefix", "source">>,
               <<"stats", <<"component_time_series", "mixing_matrix", "norm_source",
                            "normalised_component_time_series", "prewhitening_matrix",
                            "unmixing_matrix">> >>,
               <<"dep", "source">> >>
      [] branch = "CorrelationCoefficients" ->
            _pop_lengths \o _pop_common_metadata
            \o << <<"pop", KEY_TITLE>>, <<"prefix", "source">>,
                  <<"xml_from", "source", "datatype">>,
                  <<"stats", <<"array_data">> >>, <<"dep", "source">> >>
      [] branch = "PrincipalComponents" ->
            << <<"prefix", "source">>,
               <<"stats", <<"component_time_series", "fractions", "norm_source",
                            "normalised_component_time_series", "weights">> >>,
               <<"dep", "source">> >>
      [] branch = "Covariance" ->
            _pop_common_metadata
            \o << <<"pop", KEY_TITLE>> >>
            \o _pop_lengths
            \o << <<"prefix", "source">>, <<"stats", <<"array_data">> >>,
                  <<"dep", "source">> >>
      [] branch = "ConnectivityMeasure" ->
            _pop_common_metadata \o _pop_lengths
            \o << <<"prefix", "connectivity">>,
                  <<"xml_put", "data_file", Str(input_file)>>,
                  <<"xml_from", "connectivity", "connectivity">>,
                  <<"stats", <<"array_data">> >>, <<"dep", "connectivity">> >>
      [] branch = "DatatypeMeasure" ->
            << <<"put", "written_by",
                 Str(<<"tvb.core.entities.file.simulator.datatype_measure_h5.",
                       "DatatypeMeasureH5">>)>>,
               <<"h5_class", "DatatypeMeasureH5">>,
               <<"dep", "analyzed_datatype">>, <<"return">> >>
      [] branch = "StimuliRegion" ->
            << <<"prefix", "connectivity">>, <<"additional", "weight">> >>
            \o _migrate_stimuli(<<"weight">>)
            \o << <<"dep", "connectivity">> >>
      [] branch = "StimuliSurface" ->
            << <<"prefix", "surface">>, <<"additional", "focal_points_triangles">> >>
            \o _migrate_stimuli(<<"focal_points_surface", "focal_points_triangles">>)
            \o << <<"dep", "surface">> >>
      [] branch = "ValueWrapper" ->
            << <<"unquote", "data_type">>,
               <<"put", "written_by",
                 Str(<<"tvb.adapters.datatypes.h5.mapped_value_h5.", "ValueWrapperH5">>)>>,
               <<"h5_class", "ValueWrapperH5">> >>
      [] branch = "SimulationState" -> << <<"remove_file">>, <<"return">> >>
      [] OTHER -> <<>>

(***************************************************************************)
(* The state.                                                              *)
(***************************************************************************)
VARIABLES
    env,      \* what the run cannot change: the platform, the profile, the folder
    disk,     \* the container files of the folder: basename -> [root, ds]
    sidecar,  \* the Operation.xml of the folder: [present, params, algorithm]
    index,    \* the gids that have a DataType row in the Relational Index
    stored,   \* what the calls have written to the Relational Index, in order
    pc,       \* where the running call of update is ("idle": no call runs)
    fr,       \* the frame of the running (or of the last) call
    calls,    \* the number of calls of update so far
    log,      \* the effects of the running (or of the last) call, in order
    result    \* how the last call ended: "none", "returned" or an exception

vars == <<REGISTRY, env, disk, sidecar, index, stored, pc, fr, calls, log, result>>

\* the name of a legacy container file: <kind>_<gid>.h5, the gid with its hyphen
LegacyName(kind) == <<kind, "_", "a1", "-", "b2", ".h5">>

\* a second container of the same operation folder
SiblingKind == "Tracts"

SiblingGid == "0a0b"

SiblingName == <<SiblingKind, "_", "0a", "-", "0b", ".h5">>

\* the Operation.xml parameters an operation of a kind was launched with
XmlParams(kind) ==
    CASE kind = "Connectivity" -> << <<"normalization", Str(<<"none">>)>> >>
      [] kind = "Volume" -> << <<"connectivity", EmptyStr>> >>
      [] kind \in TimeSeriesKinds ->
            << <<"", EmptyStr>>, <<"surface", EmptyStr>>, <<"stimulus", EmptyStr>> >>
      [] kind \in {"ComplexCoherenceSpectrum", "WaveletCoefficients", "CoherenceSpectrum",
                   "Fcd", "FourierSpectrum", "IndependentComponents",
                   "PrincipalComponents", "Covariance"} ->
            << <<"time_series", Str(<<H2>>)>> >>
      [] OTHER -> <<>>

\* the algorithm descriptor build_operation_from_file reads from Operation.xml
XmlAlgorithm(kind) ==
    Str(<<"{module:", "tvb.adapters.", "classname:",
          CASE kind = "RegionMapping" -> "RegionMapping_Importer"
            [] kind \in SensorsKinds -> "Sensors_Importer"
            [] kind \in ProjectionKinds -> "BrainstormGainMatrixImporter"
            [] OTHER -> "Adapter",
          "}">>)

\* the identifier of the operation whose folder holds the container, and the
\* folder names: an operation folder is named by the operation's id
OperationFolder == "42"
OtherFolder == "TEMP"
Project == "PROJ"

ModuleStates == {"hasclass", "missing", "noclass"}

BoolKinds == {"Connectivity"} \cup SurfaceKinds \cup SensorsKinds

\* line 318: the datasets a Connectivity container may or may not have
OptionalDatasets == {"orientations", "areas", "cortical", "hemispheres"}

\* the containers, folders and platforms the model starts from
Scenarios ==
    {sc \in [kind : Kinds, variant : Variants \cup {"absent"}, bool : BoolTokens,
             moduleState : ModuleStates, lexicalParent : BOOLEAN,
             dataVersionAttribute : DataVersionAttributes,
             dirs : {<<Project, OperationFolder>>, <<Project, OtherFolder>>, <<>>},
             xml : BOOLEAN, index : SUBSET {H2, H3},
             optional : SUBSET OptionalDatasets, sibling : BOOLEAN] :
        \* the boolean token matters for the kinds that have a boolean field
        /\ (sc.bool # <<"0">> => sc.kind \in BoolKinds /\ sc.variant = "plain")
        /\ (sc.moduleState # "hasclass" => sc.variant = "plain" /\ sc.bool = <<"0">>)
        \* the index matters where dependents are resolved
        /\ (sc.index # {} =>
                sc.dirs = <<Project, OperationFolder>> /\ sc.lexicalParent
                /\ sc.variant = "plain" /\ sc.bool = <<"0">>)
        \* the folder with two containers is an operation folder with its
        \* Operation.xml
        /\ (sc.sibling =>
                sc.kind = "Connectivity" /\ sc.variant = "plain" /\ sc.bool = <<"0">>
                /\ sc.moduleState = "hasclass" /\ sc.index = {} /\ sc.optional = {}
                /\ sc.dirs = <<Project, OperationFolder>> /\ sc.xml)
        \* the untagged descriptor is that of a stimulus
        /\ (sc.variant = "untagged" =>
                sc.kind \in {"StimuliRegion", "StimuliSurface"} /\ sc.index = {})
        \* the optional datasets are those of a Connectivity container
        /\ (sc.optional # {} =>
                sc.kind = "Connectivity" /\ sc.variant = "plain" /\ sc.bool = <<"0">>
                /\ sc.moduleState = "hasclass" /\ sc.index = {} /\ sc.dirs # <<>>)
        /\ (sc.dirs = <<>> => ~sc.xml /\ sc.variant \in {"plain", "absent"}
                              /\ sc.bool = <<"0">> /\ sc.moduleState = "hasclass")}

NoFrame ==
    [input_file |-> [dirs |-> <<>>, base |-> <<>>], err |-> "", ret |-> "",
     existed |-> FALSE, before |-> <<>>,
     storage_migrate |-> TRUE, op_id |-> NoneV, legacy |-> <<>>, rm |-> <<>>,
     lowercase_keys |-> <<>>, class_name |-> "", h5_class |-> "None",
     xml |-> <<>>, algorithm |-> EmptyStr, additional |-> <<>>, has_vm |-> FALSE,
     operation |-> NoneV, deps |-> <<>>, ds |-> <<>>, list |-> <<>>,
     removed |-> FALSE, datatype |-> "None", datatype_index |-> "None",
     resolved |-> <<>>,
     \* how the call before this one ended, and what it did
     previous |-> [result |-> "none", log |-> <<>>, base |-> <<>>, has_vm |-> FALSE,
                   legacy |-> <<>>]]

Init ==
    \E sc \in Scenarios :
        /\ REGISTRY = populate_datatypes_registry
        /\ env = [kind |-> sc.kind, name |-> LegacyName(sc.kind), dirs |-> sc.dirs,
                  lexicalParent |-> sc.lexicalParent,
                  dataVersionAttribute |-> sc.dataVersionAttribute,
                  moduleState |-> sc.moduleState, optional |-> sc.optional]
        /\ disk = IF sc.variant = "absent" THEN <<>>
                  ELSE [n \in {LegacyName(sc.kind)}
                               \cup (IF sc.sibling THEN {SiblingName} ELSE {}) |->
                          IF n = SiblingName
                          THEN [root |-> Put(PlainRoot(SiblingKind, <<"0">>), "gid",
                                             Str(<<SiblingGid>>)),
                                ds |-> LegacyDatasets(SiblingKind)]
                          ELSE [root |-> LegacyRoot(sc.kind, sc.variant, sc.bool),
                                ds |-> LegacyDatasets(sc.kind)
                                          @@ [d \in sc.optional |-> LegacyAttrs]]]
        /\ sidecar = [present |-> sc.xml, params |-> XmlParams(sc.kind),
                      algorithm |-> XmlAlgorithm(sc.kind)]
        /\ index = sc.index
        /\ stored = <<>>
        /\ pc = "idle"
        /\ fr = NoFrame
        /\ calls = 0
        /\ log = <<>>
        /\ result = "none"

(***************************************************************************)
(* update(input_file), statement by statement.  A call that raises ends    *)
(* with result the exception's name; what it did to the disk and to the    *)
(* Relational Index before stays done.                                     *)
(***************************************************************************)
\* the call ends by an exception
Raised(e) == pc' = "idle" /\ result' = e

\* the call ends by a return
Returned == pc' = "idle" /\ result' = "returned"

\* the caller passes the path of a container of the folder: under its legacy
\* name or under a name a file of the folder has now
Call ==
    /\ pc = "idle"
    /\ calls < MaxCalls
    /\ \E base \in {env.name} \cup DOMAIN disk :
          fr' = [NoFrame EXCEPT
                   !.input_file = [dirs |-> env.dirs, base |-> base],
                   \* what the path names when the call starts (kept to state
                   \* what the call changed)
                   !.existed = base \in DOMAIN disk,
                   !.before = IF base \in DOMAIN disk THEN disk[base].root ELSE <<>>,
                   !.previous = [result |-> result, log |-> log,
                                 base |-> fr.input_file.base, has_vm |-> fr.has_vm,
                                 legacy |-> fr.legacy]]
    /\ calls' = calls + 1
    /\ pc' = "path"
    /\ log' = <<>>
    /\ result' = "running"
    /\ UNCHANGED <<REGISTRY, env, disk, sidecar, index, stored>>

\* the replacements of the file's basename
ReplacedBasename(file_basename) ==
    LET r0 == ReplaceToks(file_basename, "-", <<>>)
        r1 == ReplaceToks(r0, "BrainSkull", <<"Surface">>)
        r2 == ReplaceToks(r1, "CorticalSurface", <<"Surface">>)
        r3 == ReplaceToks(r2, "SkinAir", <<"Surface">>)
        r4 == ReplaceToks(r3, "BrainSkull", <<"Surface">>)
        r5 == ReplaceToks(r4, "SkullSkin", <<"Surface">>)
        r6 == ReplaceToks(r5, "EEGCap", <<"Surface">>)
        r7 == ReplaceToks(r6, "FaceSurface", <<"Surface">>)
        r8 == ReplaceToks(r7, "SensorsEEG", <<"Sensors">>)
        r9 == ReplaceToks(r8, "SensorsMEG", <<"Sensors">>)
        r10 == ReplaceToks(r9, "SensorsInternal", <<"Sensors">>)
        r11 == ReplaceToks(r10, "ProjectionSurfaceEEG", <<"ProjectionMatrix">>)
        r12 == ReplaceToks(r11, "ProjectionSurfaceMEG", <<"ProjectionMatrix">>)
    IN  ReplaceToks(r12, "ProjectionSurfaceSEEG", <<"ProjectionMatrix">>)

\* os.rename(old, new) within the folder
Renamed(files, old, new) ==
    [n \in (DOMAIN files \ {old}) \cup {new} |-> IF n = new THEN files[old] ELSE files[n]]

\* lines 203-229: the invocation mode and, for a storage migration, the rename.
\* The new path is os.path.join(input_file, os.pardir, replaced_basename): it
\* leads through the container file itself.  Where the platform resolves ".."
\* on the path's text it names a file of the same folder; where it resolves
\* ".." in the file system, a path through a regular file names nothing and
\* os.rename raises NotADirectoryError.
SplitPath ==
    /\ pc = "path"
    /\ LET dirs == fr.input_file.dirs
           base == fr.input_file.base
           replaced_basename == ReplacedBasename(base)
       IN  IF dirs = <<>>
           THEN \* split_path[-2] of a one-element list
                Raised("IndexError") /\ UNCHANGED <<fr, disk>>
           ELSE IF dirs[Len(dirs)] \notin DOMAIN Numeral
           THEN \* except ValueError
                /\ fr' = [fr EXCEPT !.op_id = NoneV, !.storage_migrate = FALSE]
                /\ pc' = "open"
                /\ UNCHANGED <<disk, result>>
           ELSE IF base \notin DOMAIN disk
           THEN Raised("FileNotFoundError") /\ UNCHANGED <<fr, disk>>
           ELSE IF ~env.lexicalParent
           THEN Raised("NotADirectoryError") /\ UNCHANGED <<fr, disk>>
           ELSE /\ disk' = Renamed(disk, base, replaced_basename)
                /\ fr' = [fr EXCEPT !.op_id = IntV(Numeral[dirs[Len(dirs)]]),
                                    !.input_file.base = replaced_basename]
                /\ pc' = "open"
                /\ UNCHANGED result
    /\ log' = IF pc' = "open" /\ fr'.storage_migrate THEN Append(log, "rename") ELSE log
    /\ UNCHANGED <<REGISTRY, env, sidecar, index, stored, calls>>

\* lines 231-241: the file and its class-name metadata
OpenContainer ==
    /\ pc = "open"
    /\ LET base == fr.input_file.base
       IN  IF base \notin DOMAIN disk
           THEN Raised("IncompatibleFileManagerException") /\ UNCHANGED fr
           ELSE IF ~Has(disk[base].root, KEY_CLASS_NAME)
           THEN Raised("IncompatibleFileManagerException") /\ UNCHANGED fr
           ELSE /\ fr' = [fr EXCEPT !.rm = disk[base].root, !.legacy = disk[base].root]
                /\ pc' = "normalize"
                /\ UNCHANGED result
    /\ UNCHANGED <<REGISTRY, env, disk, sidecar, index, stored, calls, log>>

\* a normalization that lower-cases the keys in memory and leaves the
\* container's keys where they are until the migrated mapping is written
NormalizeKeysStaged ==
    /\ pc = "normalize"
    /\ fr' = [fr EXCEPT !.lowercase_keys =
                [i \in 1..Len(fr.rm) |-> _lowercase_first_character(fr.rm[i][1])]]
    /\ pc' = "generic"
    /\ UNCHANGED <<REGISTRY, env, disk, sidecar, index, stored, calls, result, log>>

\* lines 244-248: every key is removed from the container, its lower-cased form
\* is kept in lowercase_keys
NormalizeKeys ==
    /\ pc = "normalize"
    /\ fr' = [fr EXCEPT !.lowercase_keys =
                [i \in 1..Len(fr.rm) |-> _lowercase_first_character(fr.rm[i][1])]]
    /\ disk' = [disk EXCEPT ![fr.input_file.base].root = <<>>]
    /\ log' = Append(log, "remove_root")
    /\ pc' = "generic"
    /\ UNCHANGED <<REGISTRY, env, sidecar, index, stored, calls, result>>

\* h5_class.__module__ + '.' + h5_class.__name__
WrittenBy(h5_class) == Str(<<"module.of.", h5_class>>)

\* lines 260-268: the class of the legacy module and its adapter.  A missing
\* "module" key, a module that is not loaded and a class that is not registered
\* are all a KeyError, which the except clause takes; a loaded module without
\* the class is an AttributeError, which it does not take.
LookupAdapter(f, moduleState) ==
    IF f.err # "" THEN f
    ELSE IF ~Has(f.rm, "module") \/ moduleState = "missing"
    THEN [f EXCEPT !.h5_class = "None"]
    ELSE IF moduleState = "noclass" THEN Raise(f, "AttributeError")
    ELSE IF get_h5file_for_datatype(f.class_name) = "KeyError"
    THEN [f EXCEPT !.h5_class = "None"]
    ELSE [f EXCEPT !.h5_class = get_h5file_for_datatype(f.class_name),
                   !.rm = Put(f.rm, "written_by",
                              WrittenBy(get_h5file_for_datatype(f.class_name)))]

\* lines 256-258: the creation date loses its 'datetime:' tag, ':' becomes '-'
\* and ' ' becomes ','
UpdateCreationDate(f) ==
    IF ~Has(f.rm, KEY_DATE) THEN Raise(f, "KeyError")
    ELSE [f EXCEPT !.rm = Put(f.rm, KEY_DATE,
            Replace(Replace(Replace(Get(f.rm, KEY_DATE), "datetime:", <<>>),
                            ":", <<"-">>), " ", <<",">>))]

\* a generic rewrite that leaves the class name and the module in the metadata
GenericRewriteKeepingType ==
    /\ pc = "generic"
    /\ LET values == [i \in 1..Len(fr.rm) |-> fr.rm[i][2]]
           zipped == DictZip(fr.lowercase_keys, values, <<>>)
           f0 == [fr EXCEPT !.rm = Put(zipped, env.dataVersionAttribute,
                                       IntV(DATA_VERSION)),
                            !.class_name = Get(zipped, "type").v[1]]
           f1 == LookupAdapter(UpdateCreationDate(f0), env.moduleState)
           f2 == Run(f1, << <<"put", "user_tag_1", EmptyStr>>, <<"prefix", "gid">>,
                            <<"pop", "data_version">> >>)
       IN  /\ fr' = f2
           /\ IF f2.err # "" THEN Raised(f2.err)
              ELSE pc' = "xml" /\ UNCHANGED result
    /\ UNCHANGED <<REGISTRY, env, disk, sidecar, index, stored, calls, log>>

\* lines 251-277
GenericRewrite ==
    /\ pc = "generic"
    /\ LET values == [i \in 1..Len(fr.rm) |-> fr.rm[i][2]]
           zipped == DictZip(fr.lowercase_keys, values, <<>>)
           f0 == [fr EXCEPT !.rm = Put(zipped, env.dataVersionAttribute,
                                       IntV(DATA_VERSION)),
                            !.class_name = Get(zipped, "type").v[1]]
           f1 == LookupAdapter(UpdateCreationDate(f0), env.moduleState)
           f2 == Run(f1, << <<"put", "user_tag_1", EmptyStr>>, <<"prefix", "gid">>,
                            <<"pop", "type">>, <<"pop", "module">>,
                            <<"pop", "data_version">> >>)
       IN  /\ fr' = f2
           /\ IF f2.err # "" THEN Raised(f2.err)
              ELSE pc' = "xml" /\ UNCHANGED result
    /\ UNCHANGED <<REGISTRY, env, disk, sidecar, index, stored, calls, log>>

\* lines 280-301: the Operation.xml of the folder, when there is one.  The
\* operation row of the folder's operation exists; for op_id None the facade
\* finds no row, and either raises or returns None.
ReadOperationXml ==
    /\ pc = "xml"
    /\ IF sidecar.present
       THEN \E absent \in {"raise", "None"} :
              IF fr.op_id = NoneV /\ absent = "raise"
              THEN Raised("NoResultFound") /\ UNCHANGED fr
              ELSE /\ fr' = [fr EXCEPT !.xml = sidecar.params,
                                       !.algorithm = sidecar.algorithm,
                                       !.operation = fr.op_id, !.has_vm = FALSE]
                   /\ pc' = "dispatch"
                   /\ UNCHANGED result
       ELSE /\ fr' = [fr EXCEPT !.has_vm = TRUE]
            /\ pc' = "dispatch"
            /\ UNCHANGED result
    /\ UNCHANGED <<REGISTRY, env, disk, sidecar, index, stored, calls, log>>

\* a dispatch that runs the branch and leaves the container file in place
DispatchKeepingFile ==
    /\ pc = "dispatch"
    /\ LET base == fr.input_file.base
           f == Run([fr EXCEPT !.ds = disk[base].ds],
                    Program(Branch(fr.class_name), fr.class_name,
                            fr.input_file.dirs \o base))
       IN  /\ fr' = f
           /\ disk' = [disk EXCEPT ![base].ds = f.ds]
           /\ IF f.err # "" THEN Raised(f.err)
              ELSE IF f.ret # "" THEN Returned
              ELSE pc' = "write" /\ UNCHANGED result
    /\ UNCHANGED <<REGISTRY, env, sidecar, index, stored, calls, log>>

\* a dispatch that puts the legacy root metadata back when the rewrite raises
DispatchRestoring ==
    /\ pc = "dispatch"
    /\ LET base == fr.input_file.base
           f == Run([fr EXCEPT !.ds = disk[base].ds],
                    Program(Branch(fr.class_name), fr.class_name,
                            fr.input_file.dirs \o base))
       IN  /\ fr' = f
           /\ disk' = IF f.removed
                      THEN [n \in DOMAIN disk \ {base} |-> disk[n]]
                      ELSE IF f.err # ""
                      THEN [disk EXCEPT ![base] = [root |-> fr.legacy, ds |-> f.ds]]
                      ELSE [disk EXCEPT ![base].ds = f.ds]
           /\ log' = IF f.removed THEN Append(log, "remove_file") ELSE log
           /\ IF f.err # "" THEN Raised(f.err)
              ELSE IF f.ret # "" THEN Returned
              ELSE pc' = "write" /\ UNCHANGED result
    /\ UNCHANGED <<REGISTRY, env, sidecar, index, stored, calls>>

\* a dispatch that rejects the kinds no branch names
DispatchRejecting ==
    /\ pc = "dispatch"
    /\ LET base == fr.input_file.base
           f == Run([fr EXCEPT !.ds = disk[base].ds],
                    Program(Branch(fr.class_name), fr.class_name,
                            fr.input_file.dirs \o base))
           g == IF Branch(fr.class_name) = "none" THEN Raise(f, "ValueError") ELSE f
       IN  /\ fr' = g
           /\ disk' = IF g.removed
                      THEN [n \in DOMAIN disk \ {base} |-> disk[n]]
                      ELSE [disk EXCEPT ![base].ds = g.ds]
           /\ log' = IF g.removed THEN Append(log, "remove_file") ELSE log
           /\ IF g.err # "" THEN Raised(g.err)
              ELSE IF g.ret # "" THEN Returned
              ELSE pc' = "write" /\ UNCHANGED result
    /\ UNCHANGED <<REGISTRY, env, sidecar, index, stored, calls>>

\* lines 303-639: the branch of the container's kind
Dispatch ==
    /\ pc = "dispatch"
    /\ LET base == fr.input_file.base
           f == Run([fr EXCEPT !.ds = disk[base].ds],
                    Program(Branch(fr.class_name), fr.class_name,
                            fr.input_file.dirs \o base))
       IN  /\ fr' = f
           /\ disk' = IF f.removed
                      THEN [n \in DOMAIN disk \ {base} |-> disk[n]]
                      ELSE [disk EXCEPT ![base].ds = f.ds]
           /\ log' = IF f.removed THEN Append(log, "remove_file") ELSE log
           /\ IF f.err # "" THEN Raised(f.err)
              ELSE IF f.ret # "" THEN Returned
              ELSE pc' = "write" /\ UNCHANGED result
    /\ UNCHANGED <<REGISTRY, env, sidecar, index, stored, calls>>

\* a write of the root metadata that goes on to the index in either mode
WriteRootThenIndex ==
    /\ pc = "write"
    /\ LET rm == Put(fr.rm, "operation_tag", EmptyStr)
       IN  /\ fr' = [fr EXCEPT !.rm = rm]
           /\ disk' = [disk EXCEPT ![fr.input_file.base].root = rm]
    /\ log' = Append(log, "set_root")
    /\ pc' = "adapter"
    /\ UNCHANGED <<REGISTRY, env, sidecar, index, stored, calls, result>>

\* lines 641-645: the migrated root metadata is written to the container
WriteRoot ==
    /\ pc = "write"
    /\ LET rm == Put(fr.rm, "operation_tag", EmptyStr)
       IN  /\ fr' = [fr EXCEPT !.rm = rm]
           /\ disk' = [disk EXCEPT ![fr.input_file.base].root = rm]
    /\ log' = Append(log, "set_root")
    /\ IF fr.storage_migrate THEN pc' = "adapter" /\ UNCHANGED result ELSE Returned
    /\ UNCHANGED <<REGISTRY, env, sidecar, index, stored, calls>>

\* an adapter step that stores the index row as soon as it has created it
OpenAdapterStoring ==
    /\ pc = "adapter"
    /\ LET datatype == get_datatype_for_h5file(fr.h5_class)
           datatype_index == get_index_for_datatype(datatype)
       IN  IF fr.h5_class = "None" \/ datatype \in {"KeyError", "None"}
              \/ datatype_index = "None"
           THEN Raised("TypeError") /\ UNCHANGED <<fr, stored, log>>
           ELSE /\ fr' = [fr EXCEPT !.datatype = datatype,
                                    !.datatype_index = datatype_index]
                /\ stored' = Append(stored, [what |-> "index", gid |-> Get(fr.rm, "gid"),
                                             fk_from_operation |-> fr.op_id,
                                             type |-> datatype_index])
                /\ log' = Append(log, "store_index")
                /\ pc' = "resolve"
                /\ UNCHANGED result
    /\ UNCHANGED <<REGISTRY, env, disk, sidecar, index, calls>>

\* lines 647-654: the adapter is instantiated, the scientific record and the
\* index row are created.  Calling None raises TypeError.
OpenAdapter ==
    /\ pc = "adapter"
    /\ LET datatype == get_datatype_for_h5file(fr.h5_class)
           datatype_index == get_index_for_datatype(datatype)
       IN  IF fr.h5_class = "None" THEN Raised("TypeError") /\ UNCHANGED fr
           ELSE IF datatype = "KeyError" THEN Raised("KeyError") /\ UNCHANGED fr
           ELSE IF datatype = "None" THEN Raised("TypeError") /\ UNCHANGED fr
           ELSE IF datatype_index = "None" THEN Raised("TypeError") /\ UNCHANGED fr
           ELSE /\ fr' = [fr EXCEPT !.datatype = datatype,
                                    !.datatype_index = datatype_index]
                /\ pc' = "resolve"
                /\ UNCHANGED result
    /\ UNCHANGED <<REGISTRY, env, disk, sidecar, index, stored, calls, log>>

\* attr_value.replace('-', '').replace('urn:uuid:', '')
GidOf(attr_value) == Replace(Replace(attr_value, "-", <<>>), "urn:uuid:", <<>>)

\* dao.get_datatype_by_gid finds the row of a gid
HasRow(rows, gid) == Len(gid.v) = 1 /\ gid.v[1] \in rows

\* a loop that takes every dependent as loaded, whether its row exists or not
ResolveAllUnchecked(f, rows) ==
    [f EXCEPT !.resolved = [i \in 1..Len(f.deps) |-> f.deps[i][1]]]

\* lines 657-660: every dependent attribute, in the order it was recorded, is
\* looked up in the Relational Index and loaded
RECURSIVE ResolveAll(_, _)
ResolveAll(f, rows) ==
    IF Len(f.resolved) = Len(f.deps) \/ f.err # "" THEN f
    ELSE LET attr == f.deps[Len(f.resolved) + 1]
         IN  IF HasRow(rows, GidOf(attr[2]))
             THEN ResolveAll([f EXCEPT !.resolved = Append(f.resolved, attr[1])], rows)
             ELSE Raise(f, "LookupError")

ResolveDependents ==
    /\ pc = "resolve"
    /\ LET f == ResolveAll(fr, index)
       IN  /\ fr' = f
           /\ IF f.err # "" THEN Raised(f.err)
              ELSE IF f.has_vm THEN pc' = "store" /\ UNCHANGED result
              ELSE pc' = "parent_burst" /\ UNCHANGED result
    /\ UNCHANGED <<REGISTRY, env, disk, sidecar, index, stored, calls, log>>

\* the gid of the burst a time series row belongs to
ParentBurst == Str(<<"b7c8">>)

\* lines 664-668: the parent burst of the analysed time series; the row of the
\* time series is looked up as the rows of the dependents are
LoadParentBurst ==
    /\ pc = "parent_burst"
    /\ IF Has(fr.xml, "time_series")
       THEN IF Get(fr.xml, "time_series").t # "str"
            THEN Raised("AttributeError") /\ UNCHANGED <<fr, disk, log>>
            ELSE IF HasRow(index, GidOf(Get(fr.xml, "time_series")))
            THEN LET rm == Put(fr.rm, "parent_burst", Concat(GID_PREFIX, ParentBurst))
                 IN  /\ fr' = [fr EXCEPT !.rm = rm]
                     /\ disk' = [disk EXCEPT ![fr.input_file.base].root = rm]
                     /\ log' = Append(log, "set_root")
                     /\ pc' = "import"
                     /\ UNCHANGED result
            ELSE Raised("LookupError") /\ UNCHANGED <<fr, disk, log>>
       ELSE pc' = "import" /\ UNCHANGED <<fr, disk, log, result>>
    /\ UNCHANGED <<REGISTRY, env, sidecar, index, stored, calls>>

\* lines 670-679: the operation is imported and its view model built; building
\* the view model from the legacy parameters may fail
ImportOperation ==
    /\ pc = "import"
    /\ stored' = Append(stored, [what |-> "operation", gid |-> EmptyStr,
                                 fk_from_operation |-> fr.op_id, type |-> "Operation"])
    /\ log' = Append(log, "import_operation")
    /\ \E built \in BOOLEAN :
          IF built THEN pc' = "history" /\ UNCHANGED result
          ELSE Raised("ViewModelError")
    /\ UNCHANGED <<REGISTRY, env, disk, sidecar, index, fr, calls>>

\* lines 681-703: for a time series, the simulation history and, when the
\* operation had a burst, the burst configuration
SimulationHistory ==
    /\ pc = "history"
    /\ IF Contains(fr.class_name, "TimeSeries")
       THEN \E burst_params \in {"None", "burst"} :
              LET history == [what |-> "history", gid |-> EmptyStr,
                              fk_from_operation |-> fr.op_id,
                              type |-> "SimulationHistoryIndex"]
                  burst == [what |-> "burst", gid |-> ParentBurst,
                            fk_from_operation |-> fr.op_id, type |-> "BurstConfiguration"]
                  rm == Put(fr.rm, "parent_burst", Concat(GID_PREFIX, ParentBurst))
              IN  IF burst_params = "None"
                  THEN /\ stored' = Append(stored, history)
                       /\ log' = Append(log, "store_history")
                       /\ UNCHANGED <<fr, disk>>
                  ELSE /\ stored' = stored \o <<history, burst>>
                       /\ fr' = [fr EXCEPT !.rm = rm]
                       /\ disk' = [disk EXCEPT ![fr.input_file.base].root = rm]
                       /\ log' = log \o <<"store_history", "store_burst", "set_root">>
       ELSE UNCHANGED <<stored, fr, disk, log>>
    /\ pc' = "remove_xml"
    /\ UNCHANGED <<REGISTRY, env, sidecar, index, calls, result>>

\* a step that leaves the Operation.xml in the folder
KeepOperationXml ==
    /\ pc = "remove_xml"
    /\ log' = Append(log, "remove_xml")
    /\ pc' = "store"
    /\ UNCHANGED <<REGISTRY, env, disk, sidecar, index, stored, fr, calls, result>>

\* line 705
RemoveOperationXml ==
    /\ pc = "remove_xml"
    /\ sidecar' = [sidecar EXCEPT !.present = FALSE]
    /\ log' = Append(log, "remove_xml")
    /\ pc' = "store"
    /\ UNCHANGED <<REGISTRY, env, disk, index, stored, fr, calls, result>>

\* a store of the index row that leaves its operation unset
StoreIndexWithoutOperation ==
    /\ pc = "store"
    /\ LET gid == GidOf(Get(fr.rm, "gid"))
       IN  /\ stored' = Append(stored, [what |-> "index", gid |-> gid,
                                        fk_from_operation |-> NoneV,
                                        type |-> fr.datatype_index])
           /\ index' = IF Len(gid.v) = 1 THEN index \cup {gid.v[1]} ELSE index
    /\ log' = Append(log, "store_index")
    /\ Returned
    /\ UNCHANGED <<REGISTRY, env, disk, sidecar, fr, calls>>

\* lines 707-713: the index row is filled and stored; the store is database
\* I/O and may fail
StoreIndex ==
    /\ pc = "store"
    /\ \E done \in BOOLEAN :
          IF done
          THEN LET gid == GidOf(Get(fr.rm, "gid"))
               IN  /\ stored' = Append(stored, [what |-> "index", gid |-> gid,
                                                fk_from_operation |-> fr.op_id,
                                                type |-> fr.datatype_index])
                   /\ index' = IF Len(gid.v) = 1 THEN index \cup {gid.v[1]} ELSE index
                   /\ log' = Append(log, "store_index")
                   /\ Returned
          ELSE Raised("DatabaseError") /\ UNCHANGED <<stored, index, log>>
    /\ UNCHANGED <<REGISTRY, env, disk, sidecar, fr, calls>>

Next ==
    \/ Call
    \/ SplitPath
    \/ OpenContainer
    \/ NormalizeKeys
    \/ GenericRewrite
    \/ ReadOperationXml
    \/ Dispatch
    \/ WriteRoot
    \/ OpenAdapter
    \/ ResolveDependents
    \/ LoadParentBurst
    \/ ImportOperation
    \/ SimulationHistory
    \/ RemoveOperationXml
    \/ StoreIndex

Spec == Init /\ [][Next]_vars

(***************************************************************************)
(* The vocabulary of the properties.  A call has ended when pc is idle     *)
(* again; result says how, log what the call did, fr what it held.         *)
(***************************************************************************)
Ended == pc = "idle" /\ result \notin {"none", "running"}

ReturnedNormally == pc = "idle" /\ result = "returned"

RaisedError == Ended /\ result # "returned"

\* the invocation mode the path of the call selects
StoragePath == env.dirs # <<>> /\ env.dirs[Len(env.dirs)] \in DOMAIN Numeral

SinglePath == env.dirs # <<>> /\ env.dirs[Len(env.dirs)] \notin DOMAIN Numeral

\* the call did e, and how many times
Did(e) == \E i \in 1..Len(log) : log[i] = e

Times(e) == Cardinality({i \in 1..Len(log) : log[i] = e})

\* the root metadata the container of the call has on disk now
FileNow == fr.input_file.base \in DOMAIN disk

RootNow == disk[fr.input_file.base].root

\* the legacy values a migrated key comes from
LegacyValues(k) ==
    {fr.legacy[i][2] : i \in {j \in 1..Len(fr.legacy) :
                                  _lowercase_first_character(fr.legacy[j][1]) = k}}

\* the foreign-identifier fields a kind records as dependents
DependentFields ==
    {"connectivity", "surface", "sensors", "sources", "volume", "region_mapping",
     "source"}

\* the legacy container refers to a gid that has no row in the Relational Index
UnresolvedDependent ==
    \E i \in 1..Len(fr.legacy) :
        /\ _lowercase_first_character(fr.legacy[i][1]) \in DependentFields
        /\ ~HasRow(index, GidOf(fr.legacy[i][2]))

\* the kinds whose branch ends the call by itself
TerminalKinds == {"SimulationState", "DatatypeMeasure"}

(***************************************************************************)
(* C1: dependency order.                                                   *)
(***************************************************************************)
\* C1, as stated: in both invocation modes, a call on a container with a
\* dependent foreign-identifier field whose gid has no row in the Relational
\* Index fails: it never returns normally and never stores an index row.
C1_FailsInBothModes ==
    (Ended /\ UnresolvedDependent) => (result # "returned" /\ ~Did("store_index"))

\* C1, amended: in a storage migration, a call on a container with a dependent
\* foreign-identifier field whose gid has no row in the Relational Index never
\* returns normally and stores no index row; when it gets as far as the
\* dependents it ends by the lookup's error, with no dependent after the
\* missing one loaded.  In single datatype mode the call returns before the
\* dependents are looked at.
C1_FailsInStorageMigration ==
    /\ (Ended /\ UnresolvedDependent /\ StoragePath) =>
            /\ result # "returned"
            /\ ~Did("store_index")
            /\ (fr.datatype_index # "None" =>
                    /\ result = "LookupError"
                    /\ Len(fr.resolved) < Len(fr.deps)
                    /\ ~HasRow(index, GidOf(fr.deps[Len(fr.resolved) + 1][2]))
                    /\ \A i \in 1..Len(fr.resolved) : fr.resolved[i] = fr.deps[i][1])
    /\ (Ended /\ UnresolvedDependent /\ SinglePath) => fr.resolved = <<>>

\* C1, witness: a storage migration has ended by the lookup's error at a
\* dependent whose row is missing, after it loaded an earlier dependent
C1_Witness ==
    /\ Ended /\ StoragePath /\ UnresolvedDependent
    /\ result = "LookupError"
    /\ Len(fr.resolved) = 1 /\ Len(fr.deps) = 2
    /\ Did("set_root") /\ ~Did("store_index")

(***************************************************************************)
(* C2: the index row is stored once, last.                                 *)
(***************************************************************************)
\* the rows of migrated containers in what the call stored so far
IndexRows == {i \in 1..Len(stored) : stored[i].what = "index"}

\* C2: a storage migration of a non-terminal kind that returns normally has
\* stored the container's index row exactly once, as its last step and after
\* its last write of the root metadata; a call that raises has stored no index
\* row.
C2_IndexRowOnceAfterFinalWrite ==
    /\ (ReturnedNormally /\ StoragePath /\ fr.class_name \notin TerminalKinds) =>
            /\ Times("store_index") = 1
            /\ log[Len(log)] = "store_index"
            /\ Did("set_root")
            /\ stored[Len(stored)] = [what |-> "index", gid |-> GidOf(Get(RootNow, "gid")),
                                      fk_from_operation |-> fr.op_id,
                                      type |-> fr.datatype_index]
    /\ RaisedError => ~Did("store_index")
    /\ (calls = 1 /\ ~ReturnedNormally) => IndexRows = {}
    /\ (ReturnedNormally /\ (SinglePath \/ fr.class_name \in TerminalKinds)) =>
            ~Did("store_index")

\* C2, witness: a storage migration that wrote the root metadata more than
\* once has returned with the index row stored last
C2_Witness ==
    /\ ReturnedNormally /\ StoragePath
    /\ Times("set_root") > 1
    /\ Times("store_index") = 1 /\ log[Len(log)] = "store_index"
    /\ IndexRows # {}

(***************************************************************************)
(* C3: what a call leaves in the container's root metadata.                *)
(***************************************************************************)
\* a root metadata mapping that went through the whole rewrite
Migrated(root) ==
    /\ Has(root, "gid") /\ Get(root, "gid").v[1] = "urn:uuid:"
    /\ Has(root, "operation_tag") /\ Has(root, "user_tag_1") /\ Has(root, KEY_DATE)
    /\ ~Has(root, KEY_CLASS_NAME) /\ ~Has(root, "module")
    /\ root = fr.rm

\* C3, as stated: after any call, returned or raised, the container's root
\* metadata is either the mapping it had before the call or the migrated
\* mapping, never an empty or partial one.
C3_LegacyOrMigrated ==
    (Ended /\ FileNow) => (RootNow = fr.before \/ (Did("set_root") /\ Migrated(RootNow)))

\* C3, amended: after any call the container's root metadata is the migrated
\* mapping when the call got to write it (line 642), the mapping it had before
\* the call when the call ended before the keys were removed (lines 244-248),
\* and empty otherwise: a call that raises between the two, or returns in the
\* DatatypeMeasure branch, leaves the container without root metadata.
C3_LegacyEmptyOrMigrated ==
    /\ (Ended /\ FileNow) =>
            IF Did("set_root") THEN Migrated(RootNow)
            ELSE IF fr.lowercase_keys # <<>> THEN RootNow = <<>> /\ fr.before # <<>>
            ELSE RootNow = fr.before
    /\ (ReturnedNormally /\ fr.class_name \notin TerminalKinds) => Did("set_root")
    /\ RaisedError => (Did("set_root") => StoragePath)

\* C3, witness: a call on a legacy container has raised in the rewrite and
\* left the container without root metadata
C3_Witness ==
    /\ RaisedError /\ FileNow /\ result = "KeyError"
    /\ fr.before # <<>> /\ Has(fr.before, KEY_CLASS_NAME)
    /\ RootNow = <<>>

(***************************************************************************)
(* C4: the URN prefix of identifiers.                                      *)
(***************************************************************************)
IdentifierFields == {"gid"} \cup DependentFields

\* C4: after the migration of a container, gid and every foreign-identifier
\* field of the written root metadata are the prefix followed by the legacy
\* hex digits: the prefix is there exactly once.
C4_PrefixExactlyOnce ==
    (Ended /\ FileNow /\ Did("set_root")) =>
        \A k \in IdentifierFields :
            Has(RootNow, k) =>
                Get(RootNow, k) \in {Concat(GID_PREFIX, v) : v \in LegacyValues(k)}

(***************************************************************************)
(* C5: the preconditions.                                                  *)
(***************************************************************************)
\* C5: in both invocation modes, a call whose path names no file, or whose
\* container has no class-name key in its root metadata, ends by
\* IncompatibleFileManagerException and leaves the root metadata as it was.
C5_IncompatibleFormat ==
    (Ended /\ (~fr.existed \/ ~Has(fr.before, KEY_CLASS_NAME))) =>
        /\ result = "IncompatibleFileManagerException"
        /\ FileNow => RootNow = fr.before

(***************************************************************************)
(* C6: no Operation.xml in the folder.                                     *)
(***************************************************************************)
\* the legacy container has every key its kind's branch reads
WellFormedLegacy ==
    \A k \in Keys(PlainRoot(env.kind, <<"0">>)) :
        LegacyValues(k) # {} /\ UntaggedEquation \notin LegacyValues(k)

\* C6: for every known kind, a call on a well-formed container whose folder
\* has no Operation.xml completes the rewrite of the root metadata, reading no
\* parameter of the sidecar and importing no operation.
C6_CompletesWithoutSidecar ==
    (Ended /\ fr.has_vm /\ WellFormedLegacy /\ fr.class_name \notin TerminalKinds) =>
        /\ Did("set_root")
        /\ ~Did("import_operation")

(***************************************************************************)
(* C7: a kind the registry does not know.                                  *)
(***************************************************************************)
\* the legacy class resolved and the registry has no adapter for it
RegistryLookupFailed ==
    /\ fr.class_name # ""
    /\ env.moduleState = "hasclass"
    /\ LegacyValues("module") # {}
    /\ get_h5file_for_datatype(fr.class_name) = "KeyError"

\* C7: when the registry lookup of the container's type fails, the call fails
\* too: it neither returns normally nor writes root metadata.  (The kinds whose
\* branch returns by itself are left out: they never get to the write.)
C7_UnregisteredKindFails ==
    (Ended /\ RegistryLookupFailed /\ fr.class_name \notin TerminalKinds) =>
        (result # "returned" /\ ~Did("set_root"))

(***************************************************************************)
(* C8: written_by.                                                         *)
(***************************************************************************)
\* the adapters the registry knows
Adapters == {REGISTRY[i][2] : i \in 1..Len(REGISTRY)}

\* C8: after every call that returns normally having written root metadata,
\* the root metadata has a written_by attribute that names an adapter class.
C8_WrittenByPresent ==
    (ReturnedNormally /\ FileNow /\ Did("set_root")) =>
        /\ Has(RootNow, "written_by")
        /\ LET written_by == Get(RootNow, "written_by")
           IN  /\ written_by.t = "str" /\ written_by.v # <<>>
               /\ written_by.v[Len(written_by.v)] \in Adapters

(***************************************************************************)
(* C9: key casing.                                                         *)
(***************************************************************************)
\* C9: after one migration pass every key of the written root metadata has a
\* lowercase first character, the keys update adds included, and the values of
\* two legacy keys that differ only in the case of their first character are
\* both still there.
C9_LowercaseKeysNothingLost ==
    (Ended /\ FileNow /\ Did("set_root")) =>
        /\ \A k \in Keys(RootNow) : k \notin UpperKeys
        /\ \A i, j \in 1..Len(fr.legacy) :
              (/\ i # j
               /\ _lowercase_first_character(fr.legacy[i][1])
                    = _lowercase_first_character(fr.legacy[j][1])
               /\ fr.legacy[i][1] \notin {"type", "module", "data_version"})
              => {fr.legacy[i][2], fr.legacy[j][2]} \subseteq Values(RootNow)

(***************************************************************************)
(* C10: booleans.                                                          *)
(***************************************************************************)
BooleanFields ==
    {"undirected", "zero_based_triangles", "bi_hemispheric", "valid_for_simulations",
     "has_orientation"}

FalseTokens == {<<"0">>, <<"f", "alse">>, <<"F", "alse">>}

\* C10: every boolean field update re-encodes is written as "bool:False" for
\* the legacy inputs "0", "false", "False" and as "bool:True" for "1", "true",
\* "True".
C10_BooleanEncoding ==
    (Ended /\ FileNow /\ Did("set_root")) =>
        \A k \in BooleanFields :
            \A v \in LegacyValues(k) :
                (v.t = "str" /\ v.v \in BoolTokens) =>
                    Get(RootNow, k) = IF v.v \in FalseTokens
                                      THEN Str(<<"bool:", "F", "alse">>)
                                      ELSE Str(<<"bool:", "T", "rue">>)

(***************************************************************************)
(* C11: SimulationState.                                                   *)
(***************************************************************************)
\* the call got as far as the branch of the container's kind
ReachedDispatch == fr.has_vm \/ fr.algorithm # EmptyStr

\* C11: a call on a SimulationState container that gets to the branch of its
\* kind deletes the container file and returns without raising; no call on
\* such a container stores an index row or writes root metadata back.
C11_SimulationStateDeleted ==
    /\ (Ended /\ fr.class_name = "SimulationState" /\ ReachedDispatch) =>
            /\ result = "returned"
            /\ Did("remove_file")
            /\ ~FileNow
    /\ (Ended /\ fr.class_name = "SimulationState") =>
            /\ ~Did("set_root")
            /\ ~Did("store_index")
            /\ ~Did("import_operation")
    /\ (env.kind = "SimulationState" /\ ~Did("remove_file")) => IndexRows = {}

\* C11, witness: a storage migration of a SimulationState container has
\* returned with the file deleted and nothing stored
C11_Witness ==
    /\ ReturnedNormally /\ fr.class_name = "SimulationState" /\ StoragePath
    /\ Did("remove_file") /\ DOMAIN disk = {} /\ stored = <<>>

(***************************************************************************)
(* C12: DatatypeMeasure.                                                   *)
(***************************************************************************)
\* C12: a call on a well-formed DatatypeMeasure container that gets to the
\* branch of its kind returns without raising and without storing an index
\* row, and the root metadata it leaves on disk still has the class-name key.
C12_DatatypeMeasureRecognizable ==
    (Ended /\ fr.class_name = "DatatypeMeasure" /\ ReachedDispatch /\ WellFormedLegacy) =>
        /\ result = "returned"
        /\ ~Did("store_index")
        /\ FileNow
        /\ Has(RootNow, KEY_CLASS_NAME)

(***************************************************************************)
(* C13: a Connectivity container in a storage migration.                   *)
(***************************************************************************)
\* the one legacy value of a key
LegacyValue1(k) == CHOOSE v \in LegacyValues(k) : TRUE

\* int(s) of a legacy string
Parsed(x) == IntV(Numeral[x.v[1]])

\* C13: after a storage migration of a Connectivity container has returned,
\* number_of_regions and number_of_connections are the integers the legacy
\* strings parse to, undirected is "bool:False" for the legacy "0" and
\* "bool:True" otherwise, saved_selection is "[]" for the legacy "null" and
\* unchanged otherwise, gid is the legacy gid with the URN prefix, and the
\* stored index row has the operation id of the parent folder's name.
C13_ConnectivityMigrated ==
    (ReturnedNormally /\ StoragePath /\ fr.class_name = "Connectivity") =>
        /\ Get(RootNow, "number_of_regions") = Parsed(LegacyValue1("number_of_regions"))
        /\ Get(RootNow, "number_of_connections")
              = Parsed(LegacyValue1("number_of_connections"))
        /\ Get(RootNow, "undirected")
              = IF LegacyValue1("undirected") = Str(<<"0">>)
                THEN Str(<<"bool:", "F", "alse">>) ELSE Str(<<"bool:", "T", "rue">>)
        /\ Get(RootNow, "saved_selection")
              = IF LegacyValue1("saved_selection") = Str(<<"null">>)
                THEN Str(<<"[]">>) ELSE LegacyValue1("saved_selection")
        /\ Get(RootNow, "gid") = Concat(GID_PREFIX, LegacyValue1("gid"))
        /\ \E i \in IndexRows :
              /\ stored[i].gid = LegacyValue1("gid")
              /\ stored[i].fk_from_operation = IntV(Numeral[env.dirs[Len(env.dirs)]])
              /\ stored[i].type = "ConnectivityIndex"

\* C13, witness: a storage migration of a Connectivity container written with
\* undirected = 1 and a saved selection has returned
C13_Witness ==
    /\ ReturnedNormally /\ StoragePath /\ fr.class_name = "Connectivity"
    /\ LegacyValue1("undirected") = Str(<<"1">>)
    /\ Get(RootNow, "saved_selection") = Str(<<"[1, 5]">>)
    /\ Get(RootNow, "number_of_regions") = IntV(5)
    /\ IndexRows # {}

(***************************************************************************)
(* C14: the dependents come first.                                         *)
(***************************************************************************)
\* every dependent the call recorded has been loaded, and has its row
AllDependentsResolved ==
    /\ Len(fr.resolved) = Len(fr.deps)
    /\ \A i \in 1..Len(fr.deps) :
          fr.resolved[i] = fr.deps[i][1] /\ HasRow(index, GidOf(fr.deps[i][2]))

\* what a call writes to the Relational Index, and the removal of the sidecar
IndexWrites ==
    {"import_operation", "store_history", "store_burst", "store_index", "remove_xml"}

\* C14: a step of update changes the Relational Index or deletes Operation.xml
\* only when every dependent of the container has been resolved against the
\* Relational Index; a call that fails at a dependent has written nothing to
\* the Relational Index and has left the sidecar in place.
C14_DependentsResolvedFirst ==
    /\ [][(stored' # stored \/ index' # index \/ sidecar' # sidecar)
             => AllDependentsResolved]_vars
    /\ []((\E e \in IndexWrites : Did(e)) => AllDependentsResolved)
    /\ []((Ended /\ ~AllDependentsResolved) => \A e \in IndexWrites : ~Did(e))

\* C14, witness: a storage migration of a container with two dependents has
\* imported the operation, removed the sidecar and stored the row
C14_Witness ==
    /\ ReturnedNormally /\ StoragePath
    /\ Len(fr.deps) = 2 /\ AllDependentsResolved
    /\ Did("import_operation") /\ Did("remove_xml") /\ Did("store_index")
    /\ ~sidecar.present

(***************************************************************************)
(* C15: _migrate_dataset_metadata.                                         *)
(***************************************************************************)
MaxList == 2

\* the dataset lists the function is tried on: the datasets of a container
\* and the name of one it does not have, each list with repetitions
DatasetLists(datasets) ==
    UNION {[1..n -> datasets \cup {"no_such_dataset"}] : n \in 0..MaxList}

Members(list) == {list[i] : i \in 1..Len(list)}

\* what _migrate_dataset_metadata does to the datasets ds for a list
MigratedAsSpecified(ds, list) ==
    LET before == [NoFrame EXCEPT !.ds = ds]
        after == _migrate_dataset_metadata(before, list)
    IN  /\ DOMAIN after.ds = DOMAIN ds
        /\ after.rm = before.rm
        /\ \A d \in DOMAIN ds \ Members(list) : after.ds[d] = ds[d]
        /\ (after.err # "") <=> ~(Members(list) \subseteq DOMAIN ds)
        /\ after.err = "" =>
              \A d \in Members(list) :
                  /\ "Variance" \notin after.ds[d].names
                  /\ "Size" \notin after.ds[d].names
                  /\ StatNames \subseteq after.ds[d].names
                  /\ after.ds[d].stats = "fresh"
                  /\ after.ds[d].content = ds[d].content
                  /\ after.ds[d].names \ StatNames = ds[d].names \ (StatNames \cup {"Variance", "Size"})

\* C15: for the datasets of every container between two calls and every list
\* of them, after _migrate_dataset_metadata the listed datasets have no
\* Variance and no Size attribute and have the statistics computed from their
\* content, and no other dataset has changed; and in the containers update
\* has rewritten, the datasets with recomputed statistics have neither
\* attribute.
C15_DatasetMetadataRebuilt ==
    /\ pc = "idle" =>
          \A n \in DOMAIN disk :
              \A list \in DatasetLists(DOMAIN disk[n].ds) :
                  MigratedAsSpecified(disk[n].ds, list)
    /\ (Ended /\ FileNow) =>
          \A d \in DOMAIN disk[fr.input_file.base].ds :
              LET a == disk[fr.input_file.base].ds[d]
              IN  a.stats = "fresh" =>
                      ({"Variance", "Size"} \cap a.names = {} /\ StatNames \subseteq a.names)

\* C15, witness: update has rebuilt the attributes of one dataset of a
\* container and left another dataset of it as it was
C15_Witness ==
    /\ Ended /\ FileNow /\ Did("set_root")
    /\ \E d, e \in DOMAIN disk[fr.input_file.base].ds :
          /\ disk[fr.input_file.base].ds[d].stats = "fresh"
          /\ "Size" \notin disk[fr.input_file.base].ds[d].names
          /\ disk[fr.input_file.base].ds[e] = LegacyAttrs

(***************************************************************************)
(* C16: the rename of a storage migration.                                 *)
(***************************************************************************)
\* the kind that succeeds a legacy kind
Successor(kind) ==
    IF kind \in SurfaceKinds THEN "Surface"
    ELSE IF kind \in SensorsKinds THEN "Sensors"
    ELSE IF kind \in ProjectionKinds THEN "ProjectionMatrix"
    ELSE kind

\* the basename a legacy container is to have after a storage migration
SuccessorName(kind) == <<Successor(kind), "_", "a1", "b2", ".h5">>

\* C16: the first call on an existing container in a storage migration
\* renames the file, within its folder, to the name without hyphens and with
\* the successor of its kind, and works on the file under that name from then
\* on; a call in single datatype mode renames nothing.
C16_RenamedInStorageMigration ==
    /\ (Ended /\ calls = 1 /\ StoragePath /\ fr.existed) =>
            /\ Did("rename")
            /\ fr.input_file = [dirs |-> env.dirs, base |-> SuccessorName(env.kind)]
            /\ env.name \notin DOMAIN disk
            /\ FileNow \/ Did("remove_file")
    /\ (Ended /\ calls = 1 /\ SinglePath /\ fr.existed) =>
            /\ ~Did("rename")
            /\ fr.input_file = [dirs |-> env.dirs, base |-> env.name]
            /\ FileNow \/ Did("remove_file")

(***************************************************************************)
(* C17: the optional datasets of a Connectivity container.                 *)
(***************************************************************************)
MandatoryDatasets == {"centres", "region_labels", "tract_lengths", "weights"}

\* C17: no call on a Connectivity container ends by MissingDataSetException
\* for an optional dataset it lacks; when the folder has its Operation.xml the
\* branch completes whichever optional datasets are absent; and after the
\* rewrite exactly the four mandatory datasets and the optional datasets the
\* container has carry recomputed statistics, no absent dataset being created.
C17_OptionalDatasetsSkipped ==
    /\ (Ended /\ fr.class_name = "Connectivity") => result # "MissingDataSetException"
    /\ (Ended /\ fr.class_name = "Connectivity" /\ ReachedDispatch /\ ~fr.has_vm
          /\ WellFormedLegacy) => Did("set_root")
    /\ (Ended /\ fr.class_name = "Connectivity" /\ Did("set_root") /\ FileNow) =>
          LET ds == disk[fr.input_file.base].ds
          IN  /\ DOMAIN ds = MandatoryDatasets \cup env.optional
              /\ Members(fr.list) = MandatoryDatasets \cup env.optional
              /\ \A d \in DOMAIN ds :
                    ds[d].stats = "fresh" /\ {"Variance", "Size"} \cap ds[d].names = {}

\* C17, witness: a Connectivity container with two of the optional datasets
\* has been migrated
C17_Witness ==
    /\ ReturnedNormally /\ fr.class_name = "Connectivity" /\ Did("set_root") /\ FileNow
    /\ env.optional = {"orientations", "cortical"}
    /\ DOMAIN disk[fr.input_file.base].ds = MandatoryDatasets \cup env.optional
    /\ disk[fr.input_file.base].ds["cortical"].stats = "fresh"

(***************************************************************************)
(* C18: the splitter of the spatial and temporal equation descriptors.     *)
(***************************************************************************)
StimuliKinds == {"StimuliRegion", "StimuliSurface"}

StimuliParams == {"spatial", "temporal"}

\* json.dumps(new_param) of lines 119-122 for a legacy descriptor
SplitDescriptor(param) ==
    [t |-> "json", v |-> << <<"type", Get(param.v, "__mapped_class")>>,
                            <<"parameters", Get(param.v, "parameters")>> >>]

\* the descriptor carries its class tag
Tagged(param) == param.t = "json" /\ Has(param.v, "__mapped_class")

\* C18: _migrate_one_stimuli_param replaces the legacy descriptor under the given
\* key by the object with exactly the keys type and parameters, type being the
\* legacy '__mapped_class' and parameters the legacy parameter mapping; when the
\* class tag is missing it raises and the entry stays as it was; no other key of
\* the root metadata, and nothing else, changes.  The splitter is applied to
\* the root metadata of every stimulus that reaches line 619, and the calls of
\* update on a stimulus show the same on the root metadata they end with.
C18_StimuliParamSplit ==
    /\ (pc = "dispatch" /\ fr.class_name \in StimuliKinds) =>
          \A k \in StimuliParams :
             LET f == _migrate_one_stimuli_param(fr, k)
             IN  /\ [f EXCEPT !.rm = fr.rm, !.err = fr.err] = fr
                 /\ Keys(f.rm) = Keys(fr.rm)
                 /\ \A o \in Keys(fr.rm) \ {k} : Get(f.rm, o) = Get(fr.rm, o)
                 /\ Has(fr.rm, k) =>
                       IF Tagged(Get(fr.rm, k))
                       THEN f.err = "" /\ Get(f.rm, k) = SplitDescriptor(Get(fr.rm, k))
                       ELSE f.err # "" /\ f.rm = fr.rm
    /\ (Ended /\ fr.class_name \in StimuliKinds /\ ReachedDispatch) =>
          \A k \in StimuliParams : \A param \in LegacyValues(k) :
             /\ (Did("set_root") /\ FileNow) =>
                   /\ Tagged(param)
                   /\ Get(RootNow, k) = SplitDescriptor(param)
             /\ ~Tagged(param) =>
                   /\ result = "KeyError"
                   /\ Get(fr.rm, k) = param
                   /\ ~Did("set_root")

C18_Witness ==
    /\ ReturnedNormally /\ fr.class_name = "StimuliRegion" /\ Did("set_root") /\ FileNow
    /\ LegacyValues("spatial") = {LegacyEquation}
    /\ Get(RootNow, "spatial") =
          [t |-> "json",
           v |-> << <<"type", Str(<<"Gaussian">>)>>,
                    <<"parameters", [t |-> "json", v |-> << <<"sigma", IntV(1)>> >>]>> >>]
    /\ Get(RootNow, "temporal") = Get(RootNow, "spatial")

(***************************************************************************)
(* C19: the table populate_datatypes_registry builds.                      *)
(***************************************************************************)
\* the value of a column is registered by one call only
RegisteredOnce(col) ==
    \A i, j \in 1..Len(REGISTRY) : REGISTRY[i][col] = REGISTRY[j][col] => i = j

\* no value of a column, None included, is registered with two adapters
OneAdapterFor(col) ==
    \A i, j \in 1..Len(REGISTRY) :
        REGISTRY[i][col] = REGISTRY[j][col] => REGISTRY[i][2] = REGISTRY[j][2]

\* C19: the registry is, in every state, the table populated at start-up, and
\* the table is unambiguous in both directions: every adapter type is
\* registered exactly once, and no scientific type and no index-row type, the
\* absent one included, is registered with two different adapters.
C19_RegistryUnambiguous ==
    /\ REGISTRY = populate_datatypes_registry
    /\ RegisteredOnce(2)
    /\ OneAdapterFor(1)
    /\ OneAdapterFor(3)

(***************************************************************************)
(* C20: index materialization of an adapter-only pairing.                  *)
(***************************************************************************)
\* C20: a storage migration of a ValueWrapper container that has written the
\* migrated root metadata goes on to instantiate the adapter named in
\* written_by, gets a scientific record type for it from the registry, builds
\* the index row and stores it: the call returns normally with one
\* ValueWrapperIndex row stored for the container.
C20_ValueWrapperIndexed ==
    (Ended /\ fr.class_name = "ValueWrapper" /\ fr.storage_migrate /\ Did("set_root")) =>
        /\ ReturnedNormally
        /\ fr.h5_class = Get(fr.rm, "written_by").v[Len(Get(fr.rm, "written_by").v)]
        /\ fr.datatype # "None"
        /\ \E i \in IndexRows : /\ stored[i].type = "ValueWrapperIndex"
                                 /\ stored[i].gid = Get(fr.rm, "gid")

(***************************************************************************)
(* C21: a call after a call that aborted in its rewrite.                   *)
(***************************************************************************)
\* the call before this one removed the root metadata and raised before it
\* wrote the migrated mapping
PreviousAborted ==
    /\ fr.previous.result \notin {"none", "returned"}
    /\ \E i \in 1..Len(fr.previous.log) : fr.previous.log[i] = "remove_root"
    /\ \A i \in 1..Len(fr.previous.log) : fr.previous.log[i] # "set_root"

\* C21: the migrated mapping is written only after the removal of the legacy
\* keys and the rewrite; a call that raises between the two leaves the
\* container with no root metadata; and the next call of update, when it is on
\* that container, fails with IncompatibleFileManagerException for the missing
\* class-name key, removing and writing nothing.
C21_RetryDoesNotResume ==
    /\ \A i \in 1..Len(log) :
          log[i] = "set_root" => \E j \in 1..(i - 1) : log[j] = "remove_root"
    /\ (Ended /\ RaisedError /\ Did("remove_root") /\ ~Did("set_root") /\ FileNow) =>
          RootNow = <<>>
    /\ (Ended /\ PreviousAborted /\ fr.existed /\ fr.input_file.base = fr.previous.base) =>
          /\ fr.before = <<>>
          /\ result = "IncompatibleFileManagerException"
          /\ ~Did("remove_root") /\ ~Did("set_root")
          /\ RootNow = <<>>

C21_Witness ==
    /\ Ended /\ PreviousAborted /\ fr.existed /\ fr.input_file.base = fr.previous.base
    /\ env.kind = "RegionMapping"
    /\ fr.previous.result = "KeyError"
    /\ \A i \in 1..Len(fr.previous.legacy) : fr.previous.legacy[i][1] # "length_4d"
    /\ result = "IncompatibleFileManagerException"
    /\ RootNow = <<>>

(***************************************************************************)
(* C22: the Operation.xml of a folder and the calls that come after the    *)
(* one that deleted it.                                                    *)
(***************************************************************************)
\* the position of the first e in the log, 0 when the call has not done e
First(e) ==
    IF Did(e) THEN CHOOSE i \in 1..Len(log) : log[i] = e /\ \A j \in 1..(i - 1) : log[j] # e
    ELSE 0

\* the call before this one deleted the Operation.xml
PreviousRemovedXml ==
    \E i \in 1..Len(fr.previous.log) : fr.previous.log[i] = "remove_xml"

\* the statements after line 301
AfterXml ==
    {"dispatch", "write", "adapter", "resolve", "parent_burst", "import", "history",
     "remove_xml", "store"}

\* C22: a storage migration that found the Operation.xml and returns normally
\* has imported the operation, then deleted the Operation.xml, then stored the
\* index row; once the Operation.xml is deleted, every later call on a
\* container of the folder finds none, runs with has_vm = True and imports no
\* operation; and a call that raises after the deletion leaves the folder with
\* no Operation.xml and no index row of its container.
C22_SidecarConsumedOnce ==
    /\ (ReturnedNormally /\ fr.storage_migrate /\ ~fr.has_vm /\ Did("store_index")) =>
          /\ 0 < First("import_operation")
          /\ First("import_operation") < First("remove_xml")
          /\ First("remove_xml") < First("store_index")
          /\ Times("remove_xml") = 1
    /\ Did("remove_xml") => ~sidecar.present /\ Did("import_operation")
    /\ PreviousRemovedXml => ~sidecar.present /\ ~Did("remove_xml")
    /\ (~sidecar.present /\ ~Did("remove_xml")) =>
          /\ ~Did("import_operation")
          /\ fr.algorithm = EmptyStr /\ fr.operation = NoneV
          /\ (pc \in AfterXml \/ (Ended /\ ReachedDispatch)) => fr.has_vm
    /\ (RaisedError /\ Did("remove_xml")) =>
          /\ ~sidecar.present
          /\ ~Did("store_index")
          /\ \A i \in IndexRows : stored[i].gid # GidOf(Get(fr.rm, "gid"))

C22_Witness ==
    /\ ReturnedNormally /\ PreviousRemovedXml /\ fr.previous.result = "returned"
    /\ fr.previous.base # fr.input_file.base
    /\ fr.class_name = SiblingKind /\ fr.storage_migrate
    /\ fr.has_vm /\ ~Did("import_operation") /\ Did("store_index")
    /\ ~sidecar.present

(***************************************************************************)
(* C23: single datatype mode.                                              *)
(***************************************************************************)
\* C23: when the parent directory name of the path is not an integer, update
\* changes the container only: no file is renamed, no dependent is resolved,
\* nothing is stored in the Relational Index and no operation is imported, the
\* Operation.xml stays, and the call returns right after the one write of the
\* migrated root metadata.
C23_SingleDatatypeMode ==
    /\ [](SinglePath =>
            /\ pc \notin {"adapter", "resolve", "parent_burst", "import", "history",
                           "remove_xml", "store"}
            /\ pc \notin {"idle", "path"} => ~fr.storage_migrate /\ fr.op_id = NoneV
            /\ \A e \in {"rename", "import_operation", "store_history", "store_burst",
                          "remove_xml", "store_index"} : ~Did(e)
            /\ fr.resolved = <<>> /\ fr.datatype = "None" /\ fr.datatype_index = "None"
            /\ stored = <<>>
            /\ (Ended /\ Did("set_root")) =>
                  /\ ReturnedNormally
                  /\ Times("set_root") = 1 /\ log[Len(log)] = "set_root"
                  /\ fr.input_file.base \in {env.name, SiblingName}
                  /\ RootNow = fr.rm)
    /\ [][SinglePath =>
            /\ sidecar' = sidecar /\ index' = index /\ stored' = stored
            /\ DOMAIN disk' \subseteq DOMAIN disk
            /\ \A n \in DOMAIN disk' : n # fr'.input_file.base => disk'[n] = disk[n]]_vars

C23_Witness ==
    /\ ReturnedNormally /\ SinglePath /\ Did("set_root") /\ FileNow
    /\ sidecar.present /\ ~fr.has_vm
    /\ fr.deps # <<>> /\ fr.resolved = <<>>
    /\ fr.input_file.base = env.name
    /\ stored = <<>>

(***************************************************************************)
(* C24: the dispatch over class_name and the time-series rewrite.          *)
(***************************************************************************)
\* the dependent fields of a time-series kind, as stated for each kind
TimeSeriesDependents(class_name) ==
    CASE class_name = "TimeSeriesRegion" -> {"connectivity", "region_mapping"}
      [] class_name = "TimeSeriesSurface" -> {"surface"}
      [] class_name \in {"TimeSeriesEEG", "TimeSeriesMEG", "TimeSeriesSEEG"} -> {"sensors"}
      [] OTHER -> {"volume"}

\* the datasets of the container whose statistics have been recomputed
Recomputed ==
    {d \in DOMAIN disk[fr.input_file.base].ds :
        disk[fr.input_file.base].ds[d].stats = "fresh"}

\* C24: one branch runs per container, the first that matches: a
\* TimeSeriesVolume container gets the time-series rewrite and a
\* RegionVolumeMapping container its own, neither the Volume rewrite; the
\* time-series rewrite records connectivity and region_mapping for
\* TimeSeriesRegion, surface for TimeSeriesSurface, sensors for TimeSeriesEEG,
\* TimeSeriesMEG and TimeSeriesSEEG and volume for every other time-series
\* kind; for TimeSeriesVolume only data is recomputed and nr_dimensions and
\* sample_rate are gone from the migrated root metadata, for every other
\* time-series kind data and time are recomputed and nr_dimensions, an int, and
\* sample_rate, a float, are kept.
C24_FirstMatchDispatch ==
    (Ended /\ Did("set_root") /\ FileNow) =>
        /\ fr.class_name = "RegionVolumeMapping" =>
              /\ Keys(fr.deps) = {"connectivity", "volume"}
              /\ Recomputed = {"array_data"}
        /\ fr.class_name \in TimeSeriesKinds =>
              /\ Keys(fr.deps) = TimeSeriesDependents(fr.class_name)
              /\ Recomputed \cap {"origin", "voxel_size"} = {}
              /\ \A k \in Members(Lengths) : ~Has(RootNow, k)
              /\ IF fr.class_name = "TimeSeriesVolume"
                 THEN /\ Recomputed = {"data"}
                      /\ ~Has(RootNow, "nr_dimensions") /\ ~Has(RootNow, "sample_rate")
                 ELSE /\ Recomputed = {"data", "time"}
                      /\ Has(RootNow, "nr_dimensions") /\ Has(RootNow, "sample_rate")
                      /\ Get(RootNow, "nr_dimensions").t = "int"
                      /\ Get(RootNow, "sample_rate").t = "float"

(***************************************************************************)
(* C25: a second call on a migrated container.                             *)
(***************************************************************************)
\* the call before this one wrote the migrated root metadata and returned
PreviousMigrated ==
    /\ fr.previous.result = "returned"
    /\ \E i \in 1..Len(fr.previous.log) : fr.previous.log[i] = "set_root"

\* the legacy values of a key in the container of the call before this one
PreviousLegacyValues(k) ==
    {fr.previous.legacy[i][2] : i \in {j \in 1..Len(fr.previous.legacy) :
        _lowercase_first_character(fr.previous.legacy[j][1]) = k}}

\* C25: after a call of update has written the migrated root metadata of a
\* container and returned, the root metadata has neither type nor module; the
\* next call on that container raises IncompatibleFileManagerException before
\* it removes or writes any metadata, and the root metadata the first call
\* wrote, gid with its one 'urn:uuid:' prefix included, stays as it is.
C25_OneShot ==
    (Ended /\ PreviousMigrated /\ fr.existed /\ fr.input_file.base = fr.previous.base) =>
        /\ ~Has(fr.before, "type") /\ ~Has(fr.before, "module")
        /\ result = "IncompatibleFileManagerException"
        /\ ~Did("remove_root") /\ ~Did("set_root")
        /\ FileNow /\ RootNow = fr.before
        /\ \A gid \in PreviousLegacyValues("gid") :
              Get(RootNow, "gid") = Concat(GID_PREFIX, gid)

C25_Witness ==
    /\ Ended /\ PreviousMigrated /\ fr.existed /\ fr.input_file.base = fr.previous.base
    /\ StoragePath /\ Did("rename")
    /\ \E i \in 1..Len(fr.previous.log) : fr.previous.log[i] = "store_index"
    /\ result = "IncompatibleFileManagerException"
    /\ Get(RootNow, "gid") = Str(<<"urn:uuid:", H1>>)

(***************************************************************************)
(* C26: a kind that no branch of the dispatch names.                       *)
(***************************************************************************)
\* the call is on a container whose class_name matches no branch
Unmatched == fr.class_name # "" /\ Branch(fr.class_name) = "none"

\* the keys the generic part of update sets itself
GenericKeys ==
    {"gid", KEY_DATE, "user_tag_1", "operation_tag", "written_by", "Data_version",
     "data_version", "type", "module"}

\* C26: a container whose class_name matches no branch is not rejected: a call
\* that gets to the dispatch writes the root metadata, which is the legacy
\* metadata under lower-cased keys with the data version stamped, the creation
\* date reformatted, gid prefixed, user_tag_1 and operation_tag empty and type,
\* module and data_version removed, every other value as it was; no dependent
\* is recorded and no dataset is touched; and a storage migration goes on to
\* the index with the adapter the registry lookup gave, storing the row of that
\* adapter's kind, or raising TypeError where the lookup gave none.
C26_UnmatchedKindGeneric ==
    /\ (Ended /\ Unmatched /\ ReachedDispatch) => Did("set_root")
    /\ (Unmatched /\ Did("set_root") /\ FileNow) =>
          /\ fr.deps = <<>> /\ fr.list = <<>>
          /\ \A d \in DOMAIN disk[fr.input_file.base].ds :
                disk[fr.input_file.base].ds[d] = LegacyAttrs
          /\ Keys(RootNow) \ GenericKeys =
                {_lowercase_first_character(fr.legacy[i][1]) : i \in 1..Len(fr.legacy)}
                   \ GenericKeys
          /\ \A k \in Keys(RootNow) \ GenericKeys : Get(RootNow, k) \in LegacyValues(k)
          /\ {"type", "module", "data_version"} \cap Keys(RootNow) = {}
          /\ Has(RootNow, "Data_version") <=> env.dataVersionAttribute = "Data_version"
          /\ Has(RootNow, "Data_version") => Get(RootNow, "Data_version") = IntV(DATA_VERSION)
          /\ Get(RootNow, "gid") \in {Concat(GID_PREFIX, g) : g \in LegacyValues("gid")}
          /\ Get(RootNow, KEY_DATE) \in
                {Replace(Replace(Replace(x, "datetime:", <<>>), ":", <<"-">>), " ", <<",">>) :
                    x \in LegacyValues(KEY_DATE)}
          /\ Get(RootNow, "user_tag_1") = EmptyStr
          /\ Get(RootNow, "operation_tag") = EmptyStr
          /\ Has(RootNow, "written_by") <=> fr.h5_class # "None"
    /\ (Ended /\ Unmatched /\ Did("set_root") /\ fr.storage_migrate) =>
          /\ fr.h5_class = "None" => result = "TypeError"
          /\ ReturnedNormally =>
                /\ fr.h5_class = get_h5file_for_datatype(fr.class_name)
                /\ Did("store_index")
                /\ \E i \in IndexRows :
                      stored[i].type =
                         get_index_for_datatype(get_datatype_for_h5file(fr.h5_class))
    /\ (Ended /\ Unmatched /\ Did("set_root") /\ ~fr.storage_migrate) => ReturnedNormally

C26_Witness ==
    /\ ReturnedNormally /\ Unmatched /\ fr.class_name = env.kind
    /\ fr.storage_migrate /\ ~fr.has_vm
    /\ Did("set_root") /\ Did("import_operation") /\ Did("store_index")
    /\ fr.h5_class = "TractsH5"
    /\ fr.deps = <<>>
    /\ Get(RootNow, "gid") = Str(<<"urn:uuid:", H1>>)

====
